---- MODULE Spec2Model ----
(***************************************************************************)
(* MindMail-AI backend: the chat endpoint (POST /chatbot/message), the     *)
(* confirmation endpoint (POST /chatbot/confirm-action) and the mailbox    *)
(* routes (/gmail/...), over the mailbox gateway of app/gmail/service.py   *)
(* and the text-generation client of app/ai/gemini_client.py.              *)
(*                                                                         *)
(* The server keeps nothing between requests.  A request is one step: the  *)
(* whole handler runs, and what the mail provider and the text-generation  *)
(* service answer during it is chosen by the environment.  A Python str is *)
(* a sequence of one-character strings, so that strip, lower, `in` and     *)
(* re.search are computed as the code computes them.                       *)
(***************************************************************************)
EXTENDS Integers, Sequences, FiniteSets, TLC

VARIABLES
    req,     \* the request being answered ("none" between requests)
    resp,    \* its response
    calls,   \* the gateway and text-generation calls made while handling it
    held     \* the pending confirmation a chat turn has returned to the caller

vars == <<req, resp, calls, held>>

---------------------------------------------------------------------------
(* Text literals *)

\* the words and phrases the matchers of the chat routes look for
Keywords ==
    [ read |-> <<"r", "e", "a", "d">>
    , show |-> <<"s", "h", "o", "w">>
    , list |-> <<"l", "i", "s", "t">>
    , display |-> <<"d", "i", "s", "p", "l", "a", "y">>
    , view |-> <<"v", "i", "e", "w">>
    , view_and_read |-> <<"v", "i", "e", "w", " ", "&", " ", "r", "e", "a", "d">>
    , view_read |-> <<"v", "i", "e", "w", " ", "r", "e", "a", "d">>
    , summarize |-> <<"s", "u", "m", "m", "a", "r", "i", "z", "e">>
    , summary |-> <<"s", "u", "m", "m", "a", "r", "y">>
    , summarise |-> <<"s", "u", "m", "m", "a", "r", "i", "s", "e">>
    , summarize_emails |-> <<"s", "u", "m", "m", "a", "r", "i", "z", "e", " ", "e", "m", "a",
          "i", "l", "s">>
    , reply |-> <<"r", "e", "p", "l", "y">>
    , respond |-> <<"r", "e", "s", "p", "o", "n", "d">>
    , answer |-> <<"a", "n", "s", "w", "e", "r">>
    , compose |-> <<"c", "o", "m", "p", "o", "s", "e">>
    , reply_and_compose |-> <<"r", "e", "p", "l", "y", " ", "&", " ", "c", "o", "m", "p", "o",
          "s", "e">>
    , reply_compose |-> <<"r", "e", "p", "l", "y", " ", "c", "o", "m", "p", "o", "s", "e">>
    , help_me_reply |-> <<"h", "e", "l", "p", " ", "m", "e", " ", "r", "e", "p", "l", "y">>
    , delete |-> <<"d", "e", "l", "e", "t", "e">>
    , remove |-> <<"r", "e", "m", "o", "v", "e">>
    , trash |-> <<"t", "r", "a", "s", "h">>
    , organize |-> <<"o", "r", "g", "a", "n", "i", "z", "e">>
    , delete_and_organize |-> <<"d", "e", "l", "e", "t", "e", " ", "&", " ", "o", "r", "g", "a",
          "n", "i", "z", "e">>
    , delete_organize |-> <<"d", "e", "l", "e", "t", "e", " ", "o", "r", "g", "a", "n", "i",
          "z", "e">>
    , help_me_delete |-> <<"h", "e", "l", "p", " ", "m", "e", " ", "d", "e", "l", "e", "t",
          "e">>
    , digest |-> <<"d", "i", "g", "e", "s", "t">>
    , today |-> <<"t", "o", "d", "a", "y">>
    , daily |-> <<"d", "a", "i", "l", "y">>
    , overview |-> <<"o", "v", "e", "r", "v", "i", "e", "w">>
    , daily_digest |-> <<"d", "a", "i", "l", "y", " ", "d", "i", "g", "e", "s", "t">>
    , categorize_mails |-> <<"c", "a", "t", "e", "g", "o", "r", "i", "z", "e", " ", "m", "a",
          "i", "l", "s">>
    , categorize_emails |-> <<"c", "a", "t", "e", "g", "o", "r", "i", "z", "e", " ", "e", "m",
          "a", "i", "l", "s">>
    , show_categories |-> <<"s", "h", "o", "w", " ", "c", "a", "t", "e", "g", "o", "r", "i",
          "e", "s">>
    , group |-> <<"g", "r", "o", "u", "p">>
    , categorize |-> <<"c", "a", "t", "e", "g", "o", "r", "i", "z", "e">>
    , category |-> <<"c", "a", "t", "e", "g", "o", "r", "y">>
    , hello |-> <<"h", "e", "l", "l", "o">>
    , hi |-> <<"h", "i">>
    , hey |-> <<"h", "e", "y">>
    , greetings |-> <<"g", "r", "e", "e", "t", "i", "n", "g", "s">>
    , help |-> <<"h", "e", "l", "p">>
    , what_can |-> <<"w", "h", "a", "t", " ", "c", "a", "n">>
    , capabilities |-> <<"c", "a", "p", "a", "b", "i", "l", "i", "t", "i", "e", "s">>
    , email |-> <<"e", "m", "a", "i", "l">>
    , to |-> <<"t", "o">>
    , from |-> <<"f", "r", "o", "m">>
    , number |-> <<"n", "u", "m", "b", "e", "r">>
    , hash |-> <<"#">>
    , about |-> <<"a", "b", "o", "u", "t">>
    , subject |-> <<"s", "u", "b", "j", "e", "c", "t">>
    , by |-> <<"b", "y">>
    , sender |-> <<"s", "e", "n", "d", "e", "r">>
    , regarding |-> <<"r", "e", "g", "a", "r", "d", "i", "n", "g">>
    , st |-> <<"s", "t">>
    , nd |-> <<"n", "d">>
    , rd |-> <<"r", "d">>
    , th |-> <<"t", "h">>
    ]

\* the mailbox labels a category directive may name
Labels ==
    [ INBOX |-> <<"I", "N", "B", "O", "X">>
    , IMPORTANT |-> <<"I", "M", "P", "O", "R", "T", "A", "N", "T">>
    , CATEGORY_PERSONAL |-> <<"C", "A", "T", "E", "G", "O", "R", "Y", "_", "P", "E", "R", "S",
          "O", "N", "A", "L">>
    , CATEGORY_SOCIAL |-> <<"C", "A", "T", "E", "G", "O", "R", "Y", "_", "S", "O", "C", "I",
          "A", "L">>
    , CATEGORY_PROMOTIONS |-> <<"C", "A", "T", "E", "G", "O", "R", "Y", "_", "P", "R", "O", "M",
          "O", "T", "I", "O", "N", "S">>
    , CATEGORY_UPDATES |-> <<"C", "A", "T", "E", "G", "O", "R", "Y", "_", "U", "P", "D", "A",
          "T", "E", "S">>
    , SPAM |-> <<"S", "P", "A", "M">>
    ]

\* the prefixes of the in-band directives
Directives ==
    [ email_id |-> <<"e", "m", "a", "i", "l", "_", "i", "d", ":">>
    , action_type |-> <<"a", "c", "t", "i", "o", "n", "_", "t", "y", "p", "e", ":">>
    , category |-> <<"c", "a", "t", "e", "g", "o", "r", "y", ":">>
    , reply_text |-> <<"r", "e", "p", "l", "y", "_", "t", "e", "x", "t", ":">>
    ]

\* the words the routes compare with and answer with
Words ==
    [ yes |-> <<"y", "e", "s">>
    , confirm |-> <<"c", "o", "n", "f", "i", "r", "m">>
    , send |-> <<"s", "e", "n", "d">>
    , y |-> <<"y">>
    , send_reply |-> <<"s", "e", "n", "d", "_", "r", "e", "p", "l", "y">>
    , delete |-> <<"d", "e", "l", "e", "t", "e">>
    , read |-> <<"r", "e", "a", "d">>
    , summarize |-> <<"s", "u", "m", "m", "a", "r", "i", "z", "e">>
    , reply |-> <<"r", "e", "p", "l", "y">>
    , email |-> <<"e", "m", "a", "i", "l">>
    , unknown |-> <<"u", "n", "k", "n", "o", "w", "n">>
    , Unknown |-> <<"U", "n", "k", "n", "o", "w", "n">>
    , unavailable |-> <<"S", "u", "m", "m", "a", "r", "y", " ", "u", "n", "a", "v", "a",
          "i", "l", "a", "b", "l", "e">>
    ]

\* the mailbox of the runs: ids, senders, subjects and snippets
MailData ==
    [ m1 |-> <<"m", "1">>
    , m2 |-> <<"m", "2">>
    , m3 |-> <<"m", "3">>
    , zz |-> <<"z", "z">>
    , m4 |-> <<"m", "4">>
    , m5 |-> <<"m", "5">>
    , m6 |-> <<"m", "6">>
    , from_alice |-> <<"A", "l", "i", "c", "e", " ", "S", "m", "i", "t", "h", " ", "<",
          "a", "l", "i", "c", "e", "@", "x", ".", "i", "o", ">">>
    , from_bob |-> <<"b", "o", "b", "@", "c", "o", "r", "p", ".", "c", "o", "m">>
    , from_carol |-> <<"C", "a", "r", "o", "l", " ", "J", "o", "n", "e", "s", " ", "<",
          "c", "a", "r", "o", "l", "@", "x", ".", "i", "o", ">">>
    , subject_invoice |-> <<"I", "n", "v", "o", "i", "c", "e", " ", "d", "u", "e">>
    , subject_lunch |-> <<"L", "u", "n", "c", "h", " ", "i", "n", "v", "o", "i", "c", "e">>
    , subject_report |-> <<"W", "e", "e", "k", "l", "y", " ", "r", "e", "p", "o", "r", "t">>
    , snippet_invoice |-> <<"P", "l", "e", "a", "s", "e", " ", "p", "a", "y">>
    , snippet_lunch |-> <<"L", "u", "n", "c", "h", " ", "a", "t", " ", "n", "o", "o", "n",
          "?">>
    , snippet_report |-> <<"N", "u", "m", "b", "e", "r", "s", " ", "a", "t", "t", "a", "c",
          "h", "e", "d">>
    ]

\* confirmation texts, action names and reply texts a caller sends
Texts ==
    [ YES |-> <<"Y", "E", "S">>
    , ConfirmBang |-> <<"C", "o", "n", "f", "i", "r", "m", "!">>
    , please_confirm |-> <<"p", "l", "e", "a", "s", "e", " ", "c", "o", "n", "f", "i", "r",
          "m">>
    , padded_y |-> <<" ", " ", "Y", " ", "\n">>
    , Send |-> <<"S", "e", "n", "d">>
    , yesterday |-> <<"y", "e", "s", "t", "e", "r", "d", "a", "y">>
    , dont_confirm |-> <<"n", "o", ",", " ", "d", "o", "n", "'", "t", " ", "c", "o", "n",
          "f", "i", "r", "m", " ", "y", "e", "t">>
    , no |-> <<"n", "o">>
    , nah |-> <<"n", "a", "h">>
    , send_it |-> <<"s", "e", "n", "d", " ", "i", "t">>
    , ok |-> <<"o", "k">>
    , blank |-> <<" ", " ", " ">>
    , action_archive |-> <<"a", "r", "c", "h", "i", "v", "e">>
    , action_Delete |-> <<"D", "e", "l", "e", "t", "e">>
    , reply_thanks |-> <<"T", "h", "a", "n", "k", "s", ",", " ", "w", "i", "l", "l", " ",
          "d", "o", ".">>
    , reply_hi |-> <<"H", "i", " ", "-", " ", "o", "k">>
    ]

\* texts the generation service returns, and the JSON objects found in them
Answers ==
    [ draft |-> <<"S", "u", "r", "e", ",", " ", "F", "r", "i", "d", "a", "y", " ",
          "w", "o", "r", "k", "s", ".">>
    , text |-> <<"A", "s", "k", "s", " ", "t", "o", " ", "p", "a", "y", ".">>
    , intent_delete |-> <<"{", "\"", "i", "n", "t", "e", "n", "t", "\"", ":", " ", "\"", "d",
          "e", "l", "e", "t", "e", "\"", "}">>
    , intent_reply |-> <<"H", "e", "r", "e", ":", " ", "{", "\"", "i", "n", "t", "e", "n", "t", "\"", ":", " ", "\"", "r", "e", "p", "l", "y", "\"", ",", " ", "\"", "c", "o", "n", "f", "i", "d", "e", "n", "c", "e", "\"", ":", " ", "0", ".", "9", "}">>
    , intent_read_nested |-> <<"{", "\"", "i", "n", "t", "e", "n", "t", "\"", ":", " ", "\"", "r", "e", "a", "d", "\"", ",", " ", "\"", "p", "a", "r", "a", "m", "e", "t", "e", "r", "s", "\"", ":", " ", "{", "\"", "n", "u", "m", "_", "e", "m", "a", "i", "l", "s", "\"", ":", " ", "2", "}", ",", " ", "\"", "c", "o", "n", "f", "i", "d", "e", "n", "c", "e", "\"", ":", " ", "0", ".", "9", "}">>
    , intent_prose |-> <<"T", "h", "e", " ", "u", "s", "e", "r", " ", "w", "a", "n", "t",
          "s", " ", "h", "e", "l", "p", ".">>
    , intent_malformed |-> <<"{", "i", "n", "t", "e", "n", "t", ":", " ", "r", "e", "a", "d",
          "}">>
    , intent_archive |-> <<"{", "\"", "i", "n", "t", "e", "n", "t", "\"", ":", " ", "\"", "a",
          "r", "c", "h", "i", "v", "e", "\"", "}">>
    , intent_no_intent |-> <<"{", "\"", "c", "o", "n", "f", "i", "d", "e", "n", "c", "e", "\"",
          ":", " ", "1", "}">>
    , intent_empty_params |-> <<"{", "\"", "i", "n", "t", "e", "n", "t", "\"", ":", " ", "\"", "r",
          "e", "a", "d", "\"", ",", " ", "\"", "p", "a", "r", "a", "m", "e",
          "t", "e", "r", "s", "\"", ":", " ", "{", "}", ",", " ", "\"", "c",
          "o", "n", "f", "i", "d", "e", "n", "c", "e", "\"", ":", " ", "0", ".",
          "9", "}">>
    , intent_null_params |-> <<"{", "\"", "i", "n", "t", "e", "n", "t", "\"", ":", " ", "\"", "s",
          "u", "m", "m", "a", "r", "i", "z", "e", "\"", ",", " ", "\"", "p",
          "a", "r", "a", "m", "e", "t", "e", "r", "s", "\"", ":", " ", "n", "u",
          "l", "l", "}">>
    , json_delete |-> <<"{", "\"", "i", "n", "t", "e", "n", "t", "\"", ":", " ", "\"", "d",
          "e", "l", "e", "t", "e", "\"", "}">>
    , json_reply |-> <<"{", "\"", "i", "n", "t", "e", "n", "t", "\"", ":", " ", "\"", "r",
          "e", "p", "l", "y", "\"", ",", " ", "\"", "c", "o", "n", "f", "i",
          "d", "e", "n", "c", "e", "\"", ":", " ", "0", ".", "9", "}">>
    , json_archive |-> <<"{", "\"", "i", "n", "t", "e", "n", "t", "\"", ":", " ", "\"", "a",
          "r", "c", "h", "i", "v", "e", "\"", "}">>
    , json_no_intent |-> <<"{", "\"", "c", "o", "n", "f", "i", "d", "e", "n", "c", "e", "\"",
          ":", " ", "1", "}">>
    , json_null_params |-> <<"{", "\"", "i", "n", "t", "e", "n", "t", "\"", ":", " ", "\"", "s",
          "u", "m", "m", "a", "r", "i", "z", "e", "\"", ",", " ", "\"", "p",
          "a", "r", "a", "m", "e", "t", "e", "r", "s", "\"", ":", " ", "n", "u",
          "l", "l", "}">>
    ]

\* the messages of the chat turns
Msgs ==
    [ empty |-> <<>>
    , spaces |-> <<" ", " ", "\n", " ">>
    , sel_read |-> <<"e", "m", "a", "i", "l", "_", "i", "d", ":", "m", "1", " ", "a",
          "c", "t", "i", "o", "n", "_", "t", "y", "p", "e", ":", "r", "e", "a",
          "d">>
    , sel_summarize |-> <<"a", "c", "t", "i", "o", "n", "_", "t", "y", "p", "e", ":", "s",
          "u", "m", "m", "a", "r", "i", "z", "e", " ", "e", "m", "a", "i", "l",
          "_", "i", "d", ":", "m", "2">>
    , sel_reply |-> <<"e", "m", "a", "i", "l", "_", "i", "d", ":", "m", "1", " ", "a",
          "c", "t", "i", "o", "n", "_", "t", "y", "p", "e", ":", "r", "e", "p",
          "l", "y">>
    , sel_delete |-> <<"e", "m", "a", "i", "l", "_", "i", "d", ":", "m", "2", " ", "a",
          "c", "t", "i", "o", "n", "_", "t", "y", "p", "e", ":", "d", "e", "l",
          "e", "t", "e">>
    , sel_delete_zz |-> <<"e", "m", "a", "i", "l", "_", "i", "d", ":", "z", "z", " ", "a",
          "c", "t", "i", "o", "n", "_", "t", "y", "p", "e", ":", "d", "e", "l",
          "e", "t", "e">>
    , sel_none |-> <<"e", "m", "a", "i", "l", "_", "i", "d", ":", "m", "1">>
    , sel_archive |-> <<"e", "m", "a", "i", "l", "_", "i", "d", ":", "m", "1", " ", "a",
          "c", "t", "i", "o", "n", "_", "t", "y", "p", "e", ":", "a", "r", "c",
          "h", "i", "v", "e">>
    , sel_Delete |-> <<"e", "m", "a", "i", "l", "_", "i", "d", ":", "m", "1", " ", "a",
          "c", "t", "i", "o", "n", "_", "t", "y", "p", "e", ":", "D", "e", "l",
          "e", "t", "e">>
    , sel_deleted |-> <<"d", "e", "l", "e", "t", "e", " ", "e", "m", "a", "i", "l", "_",
          "i", "d", ":", "m", "3", " ", "a", "c", "t", "i", "o", "n", "_", "t",
          "y", "p", "e", ":", "d", "e", "l", "e", "t", "e", "d">>
    , sel_read2 |-> <<"e", "m", "a", "i", "l", "_", "i", "d", ":", "m", "3", " ", "a",
          "c", "t", "i", "o", "n", "_", "t", "y", "p", "e", ":", "r", "e", "a",
          "d", "2">>
    , sel_empty_type |-> <<"e", "m", "a", "i", "l", "_", "i", "d", ":", "m", "2", " ", "a",
          "c", "t", "i", "o", "n", "_", "t", "y", "p", "e", ":", " ", "d", "e",
          "l", "e", "t", "e">>
    , sel_no_id |-> <<"e", "m", "a", "i", "l", "_", "i", "d", ":", " ", "m", "1", " ",
          "a", "c", "t", "i", "o", "n", "_", "t", "y", "p", "e", ":", "d", "e",
          "l", "e", "t", "e">>
    , sel_mixed |-> <<"e", "m", "a", "i", "l", "_", "i", "d", ":", "m", "1", " ", "c",
          "a", "t", "e", "g", "o", "r", "y", ":", "s", "p", "a", "m", " ", "r",
          "e", "p", "l", "y", "_", "t", "e", "x", "t", ":", "m", "2", ":", "h",
          "i">>
    , cat_spam |-> <<"c", "a", "t", "e", "g", "o", "r", "y", ":", "s", "p", "a", "m">>
    , cat_promo |-> <<"c", "a", "t", "e", "g", "o", "r", "y", ":", "C", "A", "T", "E",
          "G", "O", "R", "Y", "_", "P", "R", "O", "M", "O", "T", "I", "O", "N",
          "S">>
    , cat_bogus |-> <<"c", "a", "t", "e", "g", "o", "r", "y", ":", "w", "o", "r", "k", " ", "r", "e", "p", "l", "y", "_", "t", "e", "x", "t", ":", "m", "1", ":", "x">>
    , rt_thanks |-> <<"r", "e", "p", "l", "y", "_", "t", "e", "x", "t", ":", "m", "1",
          ":", "T", "h", "a", "n", "k", "s", ",", " ", "w", "i", "l", "l", " ",
          "d", "o", ".">>
    , rt_zz |-> <<" ", "r", "e", "p", "l", "y", "_", "t", "e", "x", "t", ":", "z",
          "z", ":", " ", "o", "k", ":", "t", "h", "e", "n", " ", "\n">>
    , rt_no_text |-> <<"r", "e", "p", "l", "y", "_", "t", "e", "x", "t", ":", "m", "1",
          ":">>
    , show |-> <<"s", "h", "o", "w", " ", "m", "y", " ", "l", "a", "s", "t", " ",
          "2", " ", "e", "m", "a", "i", "l", "s">>
    , view_read |-> <<"V", "i", "e", "w", " ", "&", " ", "R", "e", "a", "d">>
    , summarize |-> <<"S", "u", "m", "m", "a", "r", "i", "z", "e", " ", "e", "m", "a",
          "i", "l", "s">>
    , summary3 |-> <<"s", "u", "m", "m", "a", "r", "y", " ", "o", "f", " ", "3">>
    , help_reply |-> <<"h", "e", "l", "p", " ", "m", "e", " ", "r", "e", "p", "l", "y">>
    , reply_compose |-> <<"R", "e", "p", "l", "y", " ", "&", " ", "C", "o", "m", "p", "o",
          "s", "e">>
    , reply_1 |-> <<"r", "e", "p", "l", "y", " ", "t", "o", " ", "e", "m", "a", "i",
          "l", " ", "1">>
    , reply_bob |-> <<"r", "e", "s", "p", "o", "n", "d", " ", "t", "o", " ", "t", "h",
          "e", " ", "m", "a", "i", "l", " ", "f", "r", "o", "m", " ", "b", "o",
          "b">>
    , answer |-> <<"a", "n", "s", "w", "e", "r", " ", "i", "t">>
    , delete |-> <<"d", "e", "l", "e", "t", "e">>
    , delete_organize |-> <<"D", "e", "l", "e", "t", "e", " ", "&", " ", "O", "r", "g", "a",
          "n", "i", "z", "e">>
    , delete_2 |-> <<"d", "e", "l", "e", "t", "e", " ", "e", "m", "a", "i", "l", " ",
          "2">>
    , delete_9 |-> <<"t", "r", "a", "s", "h", " ", "e", "m", "a", "i", "l", " ", "#",
          "9">>
    , delete_from |-> <<"d", "e", "l", "e", "t", "e", " ", "t", "h", "e", " ", "e", "m",
          "a", "i", "l", " ", "f", "r", "o", "m", " ", "c", "a", "r", "o", "l",
          "@", "x", ".", "i", "o">>
    , delete_about |-> <<"r", "e", "m", "o", "v", "e", " ", "e", "m", "a", "i", "l", " ",
          "a", "b", "o", "u", "t", " ", "'", "l", "u", "n", "c", "h", "'">>
    , delete_2nd |-> <<"d", "e", "l", "e", "t", "e", " ", "t", "h", "e", " ", "2", "n",
          "d", " ", "e", "m", "a", "i", "l">>
    , digest |-> <<"d", "a", "i", "l", "y", " ", "d", "i", "g", "e", "s", "t">>
    , categorize |-> <<"c", "a", "t", "e", "g", "o", "r", "i", "z", "e", " ", "m", "a",
          "i", "l", "s">>
    , group |-> <<"g", "r", "o", "u", "p", " ", "t", "h", "e", "m">>
    , hello |-> <<"h", "e", "l", "l", "o">>
    , help |-> <<"h", "e", "l", "p">>
    , xyzzy |-> <<"x", "y", "z", "z", "y">>
    , rt_category |-> <<"r", "e", "p", "l", "y", "_", "t", "e", "x", "t", ":", "m", "1",
          ":", "s", "e", "e", " ", "c", "a", "t", "e", "g", "o", "r", "y", ":",
          "s", "p", "a", "m">>
    , rt_email_id |-> <<"r", "e", "p", "l", "y", "_", "t", "e", "x", "t", ":", "m", "1",
          ":", "a", "b", "o", "u", "t", " ", "e", "m", "a", "i", "l", "_", "i",
          "d", ":", "m", "2">>
    , rt_colons |-> <<"n", "o", "t", "e", " ", "r", "e", "p", "l", "y", "_", "t", "e",
          "x", "t", ":", "m", "2", ":", "T", "h", "a", "n", "k", "s", ":", " ",
          "a", ":", "b", " ", " ">>
    , cat_social |-> <<"c", "a", "t", "e", "g", "o", "r", "y", ":", "C", "A", "T", "E",
          "G", "O", "R", "Y", "_", "S", "O", "C", "I", "A", "L">>
    , cat_important |-> <<"p", "i", "c", "k", " ", "c", "a", "t", "e", "g", "o", "r", "y",
          ":", "I", "m", "p", "o", "r", "t", "a", "n", "t", " ", "n", "o", "w">>
    , organize |-> <<"o", "r", "g", "a", "n", "i", "z", "e", " ", "m", "y", " ", "i",
          "n", "b", "o", "x">>
    , reply_or_delete |-> <<"r", "e", "p", "l", "y", " ", "o", "r", " ", "d", "e", "l", "e",
          "t", "e", " ", "t", "o", "d", "a", "y">>
    , thread |-> <<"t", "h", "i", "s", " ", "t", "h", "r", "e", "a", "d">>
    , show_3_4 |-> <<"s", "h", "o", "w", " ", "3", " ", "t", "h", "e", "n", " ", "4">>
    , help_delete_2 |-> <<"h", "e", "l", "p", " ", "m", "e", " ", "d", "e", "l", "e", "t",
          "e", " ", "e", "m", "a", "i", "l", " ", "2">>
    , help_reply_2 |-> <<"h", "e", "l", "p", " ", "m", "e", " ", "r", "e", "p", "l", "y", " ", "t", "o", " ", "e", "m", "a", "i", "l", " ", "2">>
    , delete_2_carol |-> <<"d", "e", "l", "e", "t", "e", " ", "e", "m", "a", "i", "l", " ",
          "2", " ", "f", "r", "o", "m", " ", "c", "a", "r", "o", "l", "@", "x",
          ".", "i", "o">>
    , delete_0_carol |-> <<"d", "e", "l", "e", "t", "e", " ", "e", "m", "a", "i", "l", " ",
          "0", " ", "f", "r", "o", "m", " ", "c", "a", "r", "o", "l", "@", "x",
          ".", "i", "o">>
    , delete_7_lunch |-> <<"d", "e", "l", "e", "t", "e", " ", "e", "m", "a", "i", "l", " ",
          "7", " ", "a", "b", "o", "u", "t", " ", "'", "l", "u", "n", "c", "h",
          "'">>
    , reply_3_bob |-> <<"r", "e", "p", "l", "y", " ", "t", "o", " ", "e", "m", "a", "i",
          "l", " ", "3", " ", "f", "r", "o", "m", " ", "b", "o", "b">>
    , reply_9_bob |-> <<"r", "e", "p", "l", "y", " ", "t", "o", " ", "e", "m", "a", "i",
          "l", " ", "9", " ", "f", "r", "o", "m", " ", "b", "o", "b">>
    , reply_5th |-> <<"r", "e", "p", "l", "y", " ", "t", "o", " ", "t", "h", "e", " ",
          "5", "t", "h", " ", "e", "m", "a", "i", "l">>
    , reply_about |-> <<"r", "e", "p", "l", "y", " ", "t", "o", " ", "t", "h", "e", " ",
          "e", "m", "a", "i", "l", " ", "a", "b", "o", "u", "t", " ", "'", "l",
          "u", "n", "c", "h", "'">>
    , read_2 |-> <<"r", "e", "a", "d", " ", "e", "m", "a", "i", "l", " ", "2">>
    , read_9 |-> <<"r", "e", "a", "d", " ", "e", "m", "a", "i", "l", " ", "9", " ",
          "f", "r", "o", "m", " ", "c", "a", "r", "o", "l">>
    , help_delete |-> <<"h", "e", "l", "p", " ", "m", "e", " ", "d", "e", "l", "e", "t",
          "e">>
    ]


---------------------------------------------------------------------------
(* Python str and re *)

UpperCase == <<"A", "B", "C", "D", "E", "F", "G", "H", "I", "J", "K", "L", "M",
               "N", "O", "P", "Q", "R", "S", "T", "U", "V", "W", "X", "Y", "Z">>
LowerCase == <<"a", "b", "c", "d", "e", "f", "g", "h", "i", "j", "k", "l", "m",
               "n", "o", "p", "q", "r", "s", "t", "u", "v", "w", "x", "y", "z">>
DigitSeq == <<"0", "1", "2", "3", "4", "5", "6", "7", "8", "9">>
Range(s) == {s[i] : i \in 1..Len(s)}
Letters == Range(UpperCase) \cup Range(LowerCase)
Digits == Range(DigitSeq)
IdChars == Letters \cup Digits \cup {"_", "-"}
Whitespace == {" ", "\n", "\t", "\r"}
Quotes == {"\"", "'"}

SetMin(S) == CHOOSE x \in S : \A y \in S : x <= y
SetMax(S) == CHOOSE x \in S : \A y \in S : x >= y

\* str.lower() and str.upper(), one character
LowerOf == [c \in Range(UpperCase) |-> LowerCase[CHOOSE i \in 1..Len(UpperCase) : UpperCase[i] = c]]
UpperOf == [c \in Range(LowerCase) |-> UpperCase[CHOOSE i \in 1..Len(UpperCase) : LowerCase[i] = c]]
LowerChar(c) == IF c \in DOMAIN LowerOf THEN LowerOf[c] ELSE c
UpperChar(c) == IF c \in DOMAIN UpperOf THEN UpperOf[c] ELSE c

Lower(s) == [i \in 1..Len(s) |-> LowerChar(s[i])]
Upper(s) == [i \in 1..Len(s) |-> UpperChar(s[i])]

\* str.strip()
Strip(s) ==
    LET keep == {i \in 1..Len(s) : s[i] \notin Whitespace}
    IN  IF keep = {} THEN <<>> ELSE SubSeq(s, SetMin(keep), SetMax(keep))

\* sub in s
Contains(s, sub) ==
    \E i \in 1..(Len(s) - Len(sub) + 1) : \A k \in 1..Len(sub) : s[i + k - 1] = sub[k]

\* any(word in s for word in words)
ContainsAny(s, words) == \E w \in words : Contains(s, w)

\* s[:n]
Take(s, n) == SubSeq(s, 1, IF n < Len(s) THEN n ELSE Len(s))

\* A value that is a string or None.
None == [some |-> FALSE, v |-> <<>>]
Some(s) == [some |-> TRUE, v |-> s]
\* Python truthiness: None and "" are falsy
Truthy(x) == x.some /\ x.v # <<>>
\* x == "literal"
Is(x, lit) == x.some /\ x.v = lit

\* An int or None.
NoInt == [some |-> FALSE, n |-> 0]
SomeInt(n) == [some |-> TRUE, n |-> n]

\* The literal lit stands in s at position i (lit in lower case when ci).
At(s, i, lit, ci) ==
    /\ i >= 1
    /\ i + Len(lit) - 1 <= Len(s)
    /\ \A k \in 1..Len(lit) :
          (IF ci THEN LowerChar(s[i + k - 1]) ELSE s[i + k - 1]) = lit[k]

\* The end of the longest run of characters of cs that starts at j
\* (j - 1 when s[j] is not in cs): what a greedy [cs]* consumes.
RunEnd(s, j, cs) ==
    LET stops == {k \in j..Len(s) : s[k] \notin cs}
    IN  IF j > Len(s) THEN j - 1
        ELSE IF stops = {} THEN Len(s)
        ELSE SetMin(stops) - 1
\* the same for a run of characters that are not in cs: [^cs]*
RunEndNot(s, j, cs) ==
    LET stops == {k \in j..Len(s) : s[k] \in cs}
    IN  IF j > Len(s) THEN j - 1
        ELSE IF stops = {} THEN Len(s)
        ELSE SetMin(stops) - 1

\* int() of a run of digits
RECURSIVE ToInt(_)
ToInt(d) ==
    IF d = <<>> THEN 0
    ELSE 10 * ToInt(SubSeq(d, 1, Len(d) - 1))
         + (CHOOSE n \in 0..9 : DigitSeq[n + 1] = d[Len(d)])

\* re.search(lit + "([cs]+)", s): group(1) of the leftmost match, or None
SearchToken(s, lit, cs) ==
    LET hits == {i \in 1..Len(s) : At(s, i, lit, FALSE)
                                    /\ RunEnd(s, i + Len(lit), cs) >= i + Len(lit)}
    IN  IF hits = {} THEN None
        ELSE LET j == SetMin(hits) + Len(lit)
             IN  Some(SubSeq(s, j, RunEnd(s, j, cs)))

\* re.search(r"(\d+)", s): the first integer of s, or None
FirstInt(s) ==
    LET hits == {i \in 1..Len(s) : s[i] \in Digits}
    IN  IF hits = {} THEN NoInt
        ELSE SomeInt(ToInt(SubSeq(s, SetMin(hits), RunEnd(s, SetMin(hits), Digits))))

---------------------------------------------------------------------------
(* The mail provider and the text-generation service, as one request sees
   them.  An environment e says what they answer during the request:
     e.client   get_gmail_service returns a client (FALSE: it raises)
     e.list     messages.list: ok, the ids it returns (most recent first),
                and the ids whose per-message fetch fails while listing
     e.nofetch  the ids for which get_email_by_id's messages.get fails
     e.mutate   messages.trash / messages.send: "fail", or the id the
                provider gives the sent message
     e.err      the class of the provider's error when a call for an
                existing message, or the listing, fails
     e.intent   the text gemini returns for the intent prompt (None: raises)
     e.gen      the text gemini returns for every other prompt
     e.genfail  which of those other calls (1st, 2nd, ...) raise instead *)

\* the mailbox has more messages than the digest lists
MailboxSize == 52
\* the id of the k-th message: "m7", ..., "m52"
MailId(k) ==
    IF k < 10 THEN <<"m", DigitSeq[k + 1]>>
    ELSE <<"m", DigitSeq[(k \div 10) + 1], DigitSeq[(k % 10) + 1]>>

Mail ==
    <<[id |-> MailData.m1, from |-> MailData.from_alice, subject |-> MailData.subject_invoice, snippet |-> MailData.snippet_invoice],
      [id |-> MailData.m2, from |-> MailData.from_bob,   subject |-> MailData.subject_lunch,   snippet |-> MailData.snippet_lunch],
      [id |-> MailData.m3, from |-> MailData.from_carol, subject |-> MailData.subject_report,  snippet |-> MailData.snippet_report],
      [id |-> MailData.m4, from |-> MailData.from_alice, subject |-> MailData.subject_report,  snippet |-> MailData.snippet_report],
      [id |-> MailData.m5, from |-> MailData.from_bob,   subject |-> MailData.subject_invoice, snippet |-> MailData.snippet_invoice],
      [id |-> MailData.m6, from |-> MailData.from_carol, subject |-> MailData.subject_lunch,   snippet |-> MailData.snippet_lunch]>>
    \o [k \in 1..(MailboxSize - 6) |->
           [id |-> MailId(k + 6), from |-> MailData.from_alice,
            subject |-> MailData.subject_report, snippet |-> MailData.snippet_report]]

MailIds == {Mail[i].id : i \in 1..Len(Mail)}
MailOf(id) == Mail[CHOOSE i \in 1..Len(Mail) : Mail[i].id = id]

Env0 ==
    [client |-> TRUE, list |-> [ok |-> TRUE, ids |-> <<>>, skip |-> {}],
     nofetch |-> {}, mutate |-> "p1", err |-> "other", intent |-> None, gen |-> <<>>,
     genfail |-> {}]

\* A call of a gateway operation (or of gemini): the operation, the email id it
\* is about, whether it returned, the text sent (for gemini: returned), the
\* id the provider gave it, for a listing max_results and the emails it
\* returned, and the class of the provider's error when it failed.
Call(op, id, ok) ==
    [op |-> op, id |-> id, ok |-> ok, text |-> <<>>, ret |-> "", max |-> 0,
     listed |-> <<>>, error |-> ""]
\* the classes of provider errors
ErrorClasses == {"disabled", "permission", "notfound", "other"}
\* a call for a message the mailbox does not have fails as not found
ProviderError(id, e) == IF id \in MailIds THEN e.err ELSE "notfound"
\* a call of op for the email id that succeeds or fails
Gateway(op, id, ok, e) ==
    [Call(op, id, ok) EXCEPT !.error = IF ok THEN "" ELSE ProviderError(id, e)]
MutatingOps == {"trash", "send"}
Ops(cs) == {cs[i].op : i \in 1..Len(cs)}
CallsOf(cs, op) == SelectSeq(cs, LAMBDA c : c.op = op)

BlankResp ==
    [http |-> 200, keys |-> {}, reply |-> "", status |-> "",
     email_id |-> <<>>, action_required |-> "", generated_reply |-> <<>>,
     subject |-> <<>>, from |-> <<>>, message_id |-> "",
     emails |-> <<>>, summaries |-> <<>>, action_type |-> "",
     show_email_list |-> FALSE, email_count |-> 0, label |-> "", text |-> <<>>,
     detail |-> ""]

Reply(text) == [BlankResp EXCEPT !.keys = {"reply"}, !.reply = text]
\* an HTTPException, or the answer of an exception handler of the app
HttpError(code) == [BlankResp EXCEPT !.http = code, !.keys = {"detail"}]

\* What a handler run produces: a response, or an exception with its text in
\* resp.reply, and the calls made on the way.
Out(r, cs) == [resp |-> r, calls |-> cs, raised |-> ""]
Raise(kind, text, cs) == [resp |-> Reply(text), calls |-> cs, raised |-> kind]

---------------------------------------------------------------------------
(* app/gmail/service.py *)

\* get_gmail_service
ClientCall(e) ==
    <<[Call("client", <<>>, e.client) EXCEPT !.error = IF e.client THEN "" ELSE e.err]>>

\* get_email_by_id: messages.get answers for a message that exists unless
\* the call fails; every failure is raised as ValueError.
GetOk(id, e) == id \in MailIds /\ id \notin e.nofetch
GetCall(id, e) == <<Gateway("get", id, GetOk(id, e), e)>>

\* delete_email: messages.trash, or ValueError
TrashOk(id, e) == id \in MailIds /\ e.mutate # "fail"

TrashCall(id, e) == <<Gateway("trash", id, TrashOk(id, e), e)>>

\* reply_to_email: messages.get of the original, then messages.send; a
\* failure of either is raised as ValueError.
ReplyOk(id, e) == GetOk(id, e) /\ e.mutate # "fail"
SendCall(id, reply_text, e) ==
    <<[Gateway("send", id, ReplyOk(id, e), e) EXCEPT
          !.text = reply_text, !.ret = IF ReplyOk(id, e) THEN e.mutate ELSE ""]>>

\* fetch_latest_emails / fetch_emails_by_label: the first max_results ids of
\* messages.list, without those whose fetch fails (_messages_to_emails skips
\* them); a failure of messages.list is raised as ValueError.
Listed(e, max_results) ==
    SelectSeq(Take(e.list.ids, max_results), LAMBDA id : id \notin e.list.skip)
\* the listing call: its text is the ids of the messages the mailbox could
\* list, listed the emails the call returned
ListedCall(label_id, e, max_results) ==
    <<[Call("list", label_id, e.list.ok) EXCEPT
          !.text = IF e.list.ok
                   THEN SelectSeq(e.list.ids, LAMBDA id : id \notin e.list.skip)
                   ELSE <<>>,
          !.max = max_results,
          !.listed = IF e.list.ok THEN Listed(e, max_results) ELSE <<>>,
          !.error = IF e.list.ok THEN "" ELSE e.err]>>
ListCall(e, max_results) == ListedCall(<<>>, e, max_results)

\* the text of the ValueError a failed gateway call raises, by the class of
\* the provider's error
ErrorText(call) ==
    IF call.ok THEN ""
    ELSE IF call.op = "list"
    THEN IF call.error = "disabled" THEN "Gmail API is not enabled ... 1. Go to ... 5. Try again"
         ELSE "Failed to fetch emails from Gmail. Please check your Google Cloud project settings"
    ELSE IF call.op = "get"
    THEN IF call.error = "disabled" THEN "Gmail API is not enabled. Please enable it"
         ELSE "Failed to fetch email: str(e)"
    ELSE IF call.op = "trash"
    THEN CASE call.error = "disabled" -> "Gmail API is not enabled. Please enable it"
           [] call.error = "permission" -> "Permission Denied ... To fix this: 1. Log out ..."
           [] call.error = "notfound" -> "Email not found."
           [] OTHER -> "Failed to move email to trash: str(e)"
    ELSE IF call.op = "send"
    THEN IF call.error = "disabled" THEN "Gmail API is not enabled. Please enable it"
         ELSE "Failed to send reply: str(e)"
    ELSE "str(e)"
\* the text of the failure that ended a run of calls ("" when none did)
Failure(cs) == IF cs # <<>> /\ ~cs[Len(cs)].ok THEN ErrorText(cs[Len(cs)]) ELSE ""

---------------------------------------------------------------------------
(* app/ai/gemini_client.py: gemini(prompt) returns text or raises ValueError *)

\* The k-th content-generation call of the request succeeds.
GenOk(k, e) == k \notin e.genfail
GenCall(k, e) == <<Call("generate", <<>>, GenOk(k, e))>>
\* the intent prompt: the call's text is the text gemini returned
IntentCall(e) ==
    <<[Call("generate_intent", <<>>, e.intent.some) EXCEPT
          !.text = IF e.intent.some THEN e.intent.v ELSE <<>>]>>

---------------------------------------------------------------------------
(* app/chatbot/routes.py: the extractors *)

\* re.search(kw + r"\s+(\d+)", s, re.I), or kw + r"(\d+)" when ~ws:
\* the number of the leftmost match, or None
NumberAfter(s, kw, ws) ==
    LET start(i) == IF ws THEN RunEnd(s, i + Len(kw), Whitespace) + 1 ELSE i + Len(kw)
        hits == {i \in 1..Len(s) :
                    /\ At(s, i, kw, TRUE)
                    /\ ws => start(i) > i + Len(kw)
                    /\ RunEnd(s, start(i), Digits) >= start(i)}
    IN  IF hits = {} THEN NoInt
        ELSE LET p == start(SetMin(hits))
             IN  SomeInt(ToInt(SubSeq(s, p, RunEnd(s, p, Digits))))

\* re.search(r"(\d+)(?:st|nd|rd|th)?\s+email", s, re.I)
NumberBeforeEmail(s) ==
    LET thenEmail(p) == /\ RunEnd(s, p, Whitespace) >= p
                        /\ At(s, RunEnd(s, p, Whitespace) + 1, Keywords.email, TRUE)
        hits == {i \in 1..Len(s) :
                    /\ s[i] \in Digits
                    /\ LET d == RunEnd(s, i, Digits)
                       IN  \/ thenEmail(d + 1)
                           \/ /\ \E suf \in {Keywords.st, Keywords.nd, Keywords.rd, Keywords.th} : At(s, d + 1, suf, TRUE)
                              /\ thenEmail(d + 3)}
    IN  IF hits = {} THEN NoInt
        ELSE SomeInt(ToInt(SubSeq(s, SetMin(hits), RunEnd(s, SetMin(hits), Digits))))

\* The first of a sequence of optional results that is present.
RECURSIVE FirstSome(_, _)
FirstSome(results, none) ==
    IF results = <<>> THEN none
    ELSE IF Head(results).some THEN Head(results)
    ELSE FirstSome(Tail(results), none)

_extract_email_number(message) ==
    FirstSome(<<NumberAfter(message, Keywords.email, TRUE),
                NumberAfter(message, Keywords.hash, FALSE),
                NumberAfter(message, Keywords.number, TRUE),
                NumberBeforeEmail(message)>>, NoInt)

\* re.search(r"from\s+([^\s]+@[^\s]+)", s, re.I): the token after "from"
\* when it has an "@" with a character on each side
AddressAfterFrom(s) ==
    LET tok(i) == RunEnd(s, i + Len(Keywords.from), Whitespace) + 1
        end(i) == RunEndNot(s, tok(i), Whitespace)
        hits == {i \in 1..Len(s) :
                    /\ At(s, i, Keywords.from, TRUE)
                    /\ tok(i) > i + Len(Keywords.from)
                    /\ \E p \in (tok(i) + 1)..(end(i) - 1) : s[p] = "@"}
    IN  IF hits = {} THEN None
        ELSE Some(SubSeq(s, tok(SetMin(hits)), end(SetMin(hits))))

\* re.search(kw + r"\s+([A-Z][a-z]+(?:\s+[A-Z][a-z]+)?)", s, re.I): with
\* IGNORECASE both classes are the letters, so the group is a word of two or
\* more letters and, when one follows, a second such word
NameAfter(s, kw) ==
    LET first(i) == RunEnd(s, i + Len(kw), Whitespace) + 1
        end1(i) == RunEnd(s, first(i), Letters)
        second(i) == RunEnd(s, end1(i) + 1, Whitespace) + 1
        end2(i) == RunEnd(s, second(i), Letters)
        hits == {i \in 1..Len(s) :
                    /\ At(s, i, kw, TRUE)
                    /\ first(i) > i + Len(kw)
                    /\ end1(i) >= first(i) + 1}
    IN  IF hits = {} THEN None
        ELSE LET i == SetMin(hits)
             IN  IF second(i) > end1(i) + 1 /\ end2(i) >= second(i) + 1
                 THEN Some(SubSeq(s, first(i), end2(i)))
                 ELSE Some(SubSeq(s, first(i), end1(i)))

_extract_sender_name(message) ==
    FirstSome(<<AddressAfterFrom(message), NameAfter(message, Keywords.from),
                NameAfter(message, Keywords.by), NameAfter(message, Keywords.sender)>>, None)

\* re.search(kw + r"\s+[\"']?([^\"']+)[\"']?", s, re.I): group(1).strip()
PhraseAfter(s, kw) ==
    LET ws(i) == RunEnd(s, i + Len(kw), Whitespace)
        quoted(i) == ws(i) + 1 <= Len(s) /\ s[ws(i) + 1] \in Quotes
        from(i) == IF quoted(i) THEN ws(i) + 2 ELSE ws(i) + 1
        direct(i) == from(i) <= Len(s) /\ s[from(i)] \notin Quotes
        \* \s+ gives one space back and the group is that space
        giveback(i) == ~direct(i) /\ ws(i) >= i + Len(kw) + 1
        hits == {i \in 1..Len(s) :
                    /\ At(s, i, kw, TRUE)
                    /\ ws(i) >= i + Len(kw)
                    /\ direct(i) \/ giveback(i)}
    IN  IF hits = {} THEN None
        ELSE LET i == SetMin(hits)
                 to == RunEndNot(s, from(i), Quotes)
             IN  IF direct(i) THEN Some(Strip(SubSeq(s, from(i), to))) ELSE Some(<<>>)

_extract_subject_keyword(message) ==
    FirstSome(<<PhraseAfter(message, Keywords.subject), PhraseAfter(message, Keywords.about),
                PhraseAfter(message, Keywords.regarding)>>, None)

---------------------------------------------------------------------------
(* app/chatbot/routes.py: _understand_intent *)

\* num_emails when the message names no number
DefaultNum == 5

\* re.search(r"\{[^}]+\}", text, re.DOTALL).group(0), or None
JsonObject(text) ==
    LET close(i) == {k \in (i + 2)..Len(text) : text[k] = "}"}
        hits == {i \in 1..Len(text) :
                    /\ text[i] = "{"
                    /\ i + 1 <= Len(text) /\ text[i + 1] # "}"
                    /\ close(i) # {}}
    IN  IF hits = {} THEN None
        ELSE Some(SubSeq(text, SetMin(hits), SetMin(close(SetMin(hits)))))

\* json.loads on the texts the model's service returns: the dict's intent
\* ("" when it has none) and whether it has parameters (absent, or null);
\* every other text is not JSON and raises.
JsonLoads(x) ==
    CASE x = Answers.json_delete      -> [ok |-> TRUE, intent |-> "delete", parameters |-> "absent"]
      [] x = Answers.json_reply       -> [ok |-> TRUE, intent |-> "reply", parameters |-> "absent"]
      [] x = Answers.json_archive     -> [ok |-> TRUE, intent |-> "archive", parameters |-> "absent"]
      [] x = Answers.json_no_intent   -> [ok |-> TRUE, intent |-> "", parameters |-> "absent"]
      [] x = Answers.json_null_params -> [ok |-> TRUE, intent |-> "summarize", parameters |-> "null"]
      [] OTHER             -> [ok |-> FALSE, intent |-> "", parameters |-> "absent"]

Intent(kind, parameters, num) ==
    [intent |-> kind, parameters |-> parameters, num_emails |-> num, rules |-> FALSE,
     confidence |-> "json"]

\* (a variant that gives every read and summarize the default number)
RuleIntentDefaultOnly(message) ==
    LET ml == Lower(message)
        kind ==
            IF ContainsAny(ml, {Keywords.read, Keywords.show, Keywords.list, Keywords.display, Keywords.view})
            THEN "read"
            ELSE IF ContainsAny(ml, {Keywords.summarize, Keywords.summary, Keywords.summarise})
            THEN "summarize"
            ELSE "unknown"
    IN  [intent |-> kind, parameters |-> "dict",
         num_emails |-> IF kind \in {"read", "summarize"} THEN SomeInt(DefaultNum) ELSE NoInt,
         rules |-> TRUE, confidence |-> "0.7"]

\* the rule-based fallback (lines 94-122)
RuleIntent(message) ==
    LET ml == Lower(message)
        num == IF FirstInt(message).some THEN FirstInt(message) ELSE SomeInt(DefaultNum)
        kind ==
            IF ContainsAny(ml, {Keywords.read, Keywords.show, Keywords.list, Keywords.display, Keywords.view})
               \/ Contains(ml, Keywords.view_and_read) THEN "read"
            ELSE IF ContainsAny(ml, {Keywords.summarize, Keywords.summary, Keywords.summarise})
               \/ Contains(ml, Keywords.summarize_emails) THEN "summarize"
            ELSE IF ContainsAny(ml, {Keywords.reply, Keywords.respond, Keywords.answer, Keywords.compose})
               \/ Contains(ml, Keywords.reply_and_compose)
               \/ Contains(ml, Keywords.help_me_reply) THEN "reply"
            ELSE IF ContainsAny(ml, {Keywords.delete, Keywords.remove, Keywords.trash, Keywords.organize})
               \/ Contains(ml, Keywords.delete_and_organize)
               \/ Contains(ml, Keywords.help_me_delete) THEN "delete"
            ELSE IF ContainsAny(ml, {Keywords.digest, Keywords.today, Keywords.daily, Keywords.overview})
               \/ Contains(ml, Keywords.daily_digest) THEN "digest"
            ELSE IF ContainsAny(ml, {Keywords.categorize_mails, Keywords.categorize_emails, Keywords.show_categories})
               \/ Contains(ml, Keywords.categorize_mails) THEN "show_categories"
            ELSE IF ContainsAny(ml, {Keywords.group, Keywords.categorize, Keywords.category, Keywords.organize})
               THEN "group"
            ELSE IF ContainsAny(ml, {Keywords.hello, Keywords.hi, Keywords.hey, Keywords.greetings}) THEN "greeting"
            ELSE IF ContainsAny(ml, {Keywords.help, Keywords.what_can, Keywords.capabilities}) THEN "help"
            ELSE "unknown"
    IN  [intent |-> kind, parameters |-> "dict",
         num_emails |-> IF kind \in {"read", "summarize"} THEN num ELSE NoInt,
         rules |-> TRUE, confidence |-> "0.7"]

\* (a variant that gives up when the answer cannot be used)
UnderstandNoFallback(message, e) ==
    LET found == IF e.intent.some THEN JsonObject(e.intent.v) ELSE None
        parsed == JsonLoads(found.v)
    IN  IF found.some /\ parsed.ok
        THEN Intent(IF parsed.intent = "" THEN "unknown" ELSE parsed.intent,
                    IF parsed.parameters = "null" THEN "none" ELSE "dict", NoInt)
        ELSE Intent("unknown", "dict", NoInt)

\* _understand_intent: the dict the service's answer parses to, else the rules
_understand_intent(message, e) ==
    LET found == IF e.intent.some THEN JsonObject(e.intent.v) ELSE None
        parsed == JsonLoads(found.v)
    IN  IF found.some /\ parsed.ok
        THEN Intent(IF parsed.intent = "" THEN "unknown" ELSE parsed.intent,
                    IF parsed.parameters = "null" THEN "none" ELSE "dict", NoInt)
        ELSE RuleIntent(message)

---------------------------------------------------------------------------
(* app/chatbot/routes.py: the handlers of a chat turn *)

ListFor(emails, action) ==
    [BlankResp EXCEPT !.keys = {"reply", "emails", "action_type", "show_email_list"},
                      !.reply = "Click the email you want to", !.emails = emails,
                      !.action_type = action, !.show_email_list = TRUE]

Pending(keys, text, id, action, draft, from, subject) ==
    [BlankResp EXCEPT !.keys = keys \cup {"reply", "email_id", "action_required"},
                      !.reply = text, !.email_id = id, !.action_required = action,
                      !.generated_reply = draft, !.from = from, !.subject = subject]

\* one get_email_by_id per id, in order
GetCalls(ids, e) == [i \in 1..Len(ids) |-> Gateway("get", ids[i], GetOk(ids[i], e), e)]
\* one gemini call per item, in order
GenCalls(n, e) == [i \in 1..n |-> Call("generate", <<>>, GenOk(i, e))]

_handle_show_email_list(e, action) ==
    IF ~e.list.ok THEN Raise("ValueError", "Failed to fetch emails", ListCall(e, 10))
    ELSE IF Listed(e, 10) = <<>>
    THEN Out(Reply("You don't have any emails in your inbox."), ListCall(e, 10))
    ELSE Out(ListFor(Listed(e, 10), action), ListCall(e, 10))

_handle_read_single_email(e, email_id) ==
    IF ~GetOk(email_id, e)
    THEN Raise("ValueError", "Failed to read email", GetCall(email_id, e))
    ELSE Out([BlankResp EXCEPT !.keys = {"reply", "email_id", "email_content"},
                               !.reply = "Here's the email.", !.email_id = email_id,
                               !.from = MailOf(email_id).from,
                               !.subject = MailOf(email_id).subject],
             GetCall(email_id, e))

_handle_summarize_single_email(e, email_id) ==
    IF ~GetOk(email_id, e)
    THEN Raise("ValueError", "Failed to summarize email", GetCall(email_id, e))
    ELSE IF ~GenOk(1, e)
    THEN Raise("ValueError", "Failed to summarize email",
               GetCall(email_id, e) \o GenCall(1, e))
    ELSE Out([BlankResp EXCEPT !.keys = {"reply", "email_id"},
                               !.reply = "Email Summary", !.email_id = email_id,
                               !.from = MailOf(email_id).from,
                               !.subject = MailOf(email_id).subject, !.text = e.gen],
             GetCall(email_id, e) \o GenCall(1, e))

_handle_reply_to_single_email(e, email_id) ==
    IF ~GetOk(email_id, e)
    THEN Raise("ValueError", "Failed to prepare reply", GetCall(email_id, e))
    ELSE Out(Pending({"original_email"}, "Reply to Email", email_id, "compose_reply", <<>>,
                     MailOf(email_id).from, MailOf(email_id).subject),
             GetCall(email_id, e))

_handle_user_composed_reply(e, email_id, reply_text) ==
    IF Strip(reply_text) = <<>>
    THEN Out(Pending({}, "Your reply is empty.", email_id, "compose_reply", <<>>, <<>>, <<>>),
             <<>>)
    ELSE Out(Pending({"generated_reply", "original_email"}, "Reply Preview", email_id,
                     "confirm_send", reply_text,
                     IF GetOk(email_id, e) THEN MailOf(email_id).from ELSE Words.Unknown,
                     IF GetOk(email_id, e) THEN MailOf(email_id).subject ELSE Words.Unknown),
             GetCall(email_id, e))

\* (a variant in which a failed fetch ends the selection)
DeleteSingleStrict(e, email_id) ==
    IF ~GetOk(email_id, e)
    THEN Raise("ValueError", "Failed to read email", GetCall(email_id, e))
    ELSE Out(Pending({}, "Are you sure you want to delete it?", email_id, "confirm_delete", <<>>,
                     MailOf(email_id).from, MailOf(email_id).subject),
             GetCall(email_id, e))

_handle_delete_single_email(e, email_id) ==
    Out(Pending({}, "Are you sure you want to delete it?", email_id, "confirm_delete", <<>>,
                IF GetOk(email_id, e) THEN MailOf(email_id).from ELSE Words.unknown,
                IF GetOk(email_id, e) THEN MailOf(email_id).subject ELSE Words.email),
        GetCall(email_id, e))

\* the summary of item i of a batch: the generated text, else the snippet of
\* the fetched message, else (the fetch had failed too) "Summary unavailable"
BatchSummary(emails, i, e) ==
    IF GenOk(i, e) THEN e.gen
    ELSE IF GetOk(emails[i], e) THEN MailOf(emails[i]).snippet
    ELSE Words.unavailable

_handle_read_emails(e, num_emails) ==
    IF ~e.list.ok THEN Raise("ValueError", "Failed to read emails", ListCall(e, num_emails))
    ELSE LET emails == Listed(e, num_emails)
         IN  IF emails = <<>>
             THEN Out(Reply("You don't have any emails in your inbox."), ListCall(e, num_emails))
             ELSE Out([BlankResp EXCEPT
                          !.keys = {"reply", "emails"},
                          !.reply = "emails with AI-generated summaries",
                          !.emails = emails,
                          !.summaries = [i \in 1..Len(emails) |-> BatchSummary(emails, i, e)]],
                      ListCall(e, num_emails) \o GetCalls(emails, e) \o GenCalls(Len(emails), e))

_handle_summarize_emails(e, num_emails) == _handle_read_emails(e, num_emails)

\* the first listed email whose sender (or subject) contains the text, or None
FirstMatch(emails, field, text) ==
    LET hits == {i \in 1..Len(emails) :
                    Contains(Lower(IF field = "from" THEN MailOf(emails[i]).from
                                   ELSE MailOf(emails[i]).subject),
                             Lower(text))}
    IN  IF hits = {} THEN None ELSE Some(emails[SetMin(hits)])

\* emails[email_number - 1] when the number is in range, or None
ByNumber(emails, number) ==
    IF number.some /\ number.n # 0 /\ 1 <= number.n /\ number.n <= Len(emails)
    THEN Some(emails[number.n]) ELSE None

ChoiceList(text, emails) ==
    [BlankResp EXCEPT !.keys = {"reply", "emails"}, !.reply = text,
                      !.emails = Take(emails, 10)]

\* (a variant that resolves the target without the generic check)
ReplyIntentTargetFirst(e, message) ==
    IF ~e.list.ok THEN Raise("ValueError", "Failed to generate reply", ListCall(e, 10))
    ELSE LET emails == Listed(e, 10)
             sender == _extract_sender_name(message)
             numbered == ByNumber(emails, _extract_email_number(message))
             bySender == IF Truthy(sender) THEN FirstMatch(emails, "from", sender.v) ELSE None
             target == IF numbered.some THEN numbered.v
                       ELSE IF bySender.some THEN bySender.v
                       ELSE emails[1]
         IN  IF emails = <<>>
             THEN Out(Reply("You don't have any emails to reply to."), ListCall(e, 10))
             ELSE IF ~GetOk(target, e)
             THEN Raise("ValueError", "Failed to generate reply",
                        ListCall(e, 10) \o GetCall(target, e))
             ELSE IF ~GenOk(1, e)
             THEN Raise("ValueError", "Failed to generate reply",
                        ListCall(e, 10) \o GetCall(target, e) \o GenCall(1, e))
             ELSE Out(Pending({"generated_reply", "original_email"},
                              "I've generated a reply for you", target, "confirm_send",
                              e.gen, MailOf(target).from, MailOf(target).subject),
                      ListCall(e, 10) \o GetCall(target, e) \o GenCall(1, e))

_handle_reply_intent(e, message) ==
    IF ~e.list.ok THEN Raise("ValueError", "Failed to generate reply", ListCall(e, 10))
    ELSE LET emails == Listed(e, 10)
             ml == Lower(message)
             generic == \/ Contains(ml, Keywords.help_me_reply)
                        \/ Contains(ml, Keywords.reply_and_compose)
                        \/ /\ Contains(ml, Keywords.reply)
                           /\ ~ContainsAny(ml, {Keywords.email, Keywords.to, Keywords.from, Keywords.number, Keywords.hash})
             sender == _extract_sender_name(message)
             numbered == ByNumber(emails, _extract_email_number(message))
             bySender == IF Truthy(sender) THEN FirstMatch(emails, "from", sender.v) ELSE None
             target == IF numbered.some THEN numbered.v
                       ELSE IF bySender.some THEN bySender.v
                       ELSE emails[1]
         IN  IF emails = <<>>
             THEN Out(Reply("You don't have any emails to reply to."), ListCall(e, 10))
             ELSE IF generic
             THEN Out(ChoiceList("Which one would you like to reply to?", emails), ListCall(e, 10))
             ELSE IF ~GetOk(target, e)
             THEN Raise("ValueError", "Failed to generate reply",
                        ListCall(e, 10) \o GetCall(target, e))
             ELSE IF ~GenOk(1, e)
             THEN Raise("ValueError", "Failed to generate reply",
                        ListCall(e, 10) \o GetCall(target, e) \o GenCall(1, e))
             ELSE Out(Pending({"generated_reply", "original_email"},
                              "I've generated a reply for you", target, "confirm_send",
                              e.gen, MailOf(target).from, MailOf(target).subject),
                      ListCall(e, 10) \o GetCall(target, e) \o GenCall(1, e))

\* (a variant that trashes the latest email at once)
DeleteAtOnce(e, message) ==
    IF ~e.list.ok \/ Listed(e, 20) = <<>>
    THEN Raise("ValueError", "Failed to process delete request", ListCall(e, 20))
    ELSE Out(Reply("Email moved to trash"), ListCall(e, 20) \o TrashCall(Listed(e, 20)[1], e))

_handle_delete_intent(e, message) ==
    IF ~e.list.ok THEN Raise("ValueError", "Failed to process delete request", ListCall(e, 20))
    ELSE LET emails == Listed(e, 20)
             ml == Lower(message)
             generic == \/ Contains(ml, Keywords.help_me_delete)
                        \/ Contains(ml, Keywords.delete_and_organize)
                        \/ /\ Contains(ml, Keywords.delete)
                           /\ ~ContainsAny(ml, {Keywords.email, Keywords.from, Keywords.number, Keywords.hash,
                                                Keywords.about, Keywords.subject})
             numbered == ByNumber(emails, _extract_email_number(message))
             sender == _extract_sender_name(message)
             bySender == IF Truthy(sender) THEN FirstMatch(emails, "from", sender.v) ELSE None
             keyword == _extract_subject_keyword(message)
             bySubject == IF Truthy(keyword) THEN FirstMatch(emails, "subject", keyword.v)
                          ELSE None
             target == IF numbered.some THEN numbered
                       ELSE IF bySender.some THEN bySender
                       ELSE bySubject
         IN  IF emails = <<>>
             THEN Out(Reply("You don't have any emails to delete."), ListCall(e, 20))
             ELSE IF generic
             THEN Out(ChoiceList("Which one would you like to delete?", emails), ListCall(e, 20))
             ELSE IF ~target.some
             THEN Out(ChoiceList("You can specify by:",
                                 emails), ListCall(e, 20))
             ELSE Out(Pending({}, "Are you sure you want to delete it?", target.v,
                              "confirm_delete", <<>>, MailOf(target.v).from,
                              MailOf(target.v).subject),
                      ListCall(e, 20))

\* (a variant that writes the digest of an empty listing too)
DigestOfNothing(e, max_results, cap, none, failed, title) ==
    IF ~e.list.ok THEN Raise("ValueError", failed, ListCall(e, max_results))
    ELSE LET emails == Listed(e, max_results)
             expand == Take(emails, cap)
             full == SelectSeq(expand, LAMBDA id : GetOk(id, e))
         IN  IF ~GenOk(1, e)
             THEN Raise("ValueError", failed,
                        ListCall(e, max_results) \o GetCalls(expand, e) \o GenCall(1, e))
             ELSE Out([BlankResp EXCEPT !.keys = {"reply", "email_count"}, !.reply = title,
                                        !.email_count = Len(full), !.text = e.gen],
                      ListCall(e, max_results) \o GetCalls(expand, e) \o GenCall(1, e))

\* list, expand the first `cap` listed emails (a failed fetch is skipped),
\* one prompt over them all
Digest(e, max_results, cap, none, failed, title) ==
    IF ~e.list.ok THEN Raise("ValueError", failed, ListCall(e, max_results))
    ELSE LET emails == Listed(e, max_results)
             expand == Take(emails, cap)
             full == SelectSeq(expand, LAMBDA id : GetOk(id, e))
         IN  IF emails = <<>> THEN Out(Reply(none), ListCall(e, max_results))
             ELSE IF ~GenOk(1, e)
             THEN Raise("ValueError", failed,
                        ListCall(e, max_results) \o GetCalls(expand, e) \o GenCall(1, e))
             ELSE Out([BlankResp EXCEPT !.keys = {"reply", "email_count"}, !.reply = title,
                                        !.email_count = Len(full), !.text = e.gen],
                      ListCall(e, max_results) \o GetCalls(expand, e) \o GenCall(1, e))

\* (a variant that expands every listed email)
DailyDigestExpandsAll(e) ==
    Digest(e, 50, 50, "You don't have any emails today.", "Failed to generate digest",
           "Your Daily Email Digest")

_handle_daily_digest(e) ==
    Digest(e, 50, 20, "You don't have any emails today.", "Failed to generate digest",
           "Your Daily Email Digest")

_handle_smart_grouping(e) ==
    Digest(e, 20, 20, "You don't have enough emails to group.", "Failed to group emails",
           "Smart Inbox Grouping")

\* _get_categories_list: the display name of a label id
LabelName(label_id) ==
    CASE label_id = Labels.INBOX -> "All Mails"
      [] label_id = Labels.IMPORTANT -> "Important"
      [] label_id = Labels.CATEGORY_PERSONAL -> "Work"
      [] label_id = Labels.CATEGORY_PROMOTIONS -> "Promotion"
      [] label_id = Labels.SPAM -> "Spam"
      [] OTHER -> "the label id"

_handle_show_categories ==
    Out([BlankResp EXCEPT !.keys = {"reply", "categories", "show_category_buttons"},
                          !.reply = "Select a category to see the top 5 emails:"], <<>>)

_handle_emails_by_category(e, label_id) ==
    LET listing == ListedCall(label_id, e, 5)
    IN  IF ~e.list.ok
        THEN Raise("ValueError", "Failed to fetch emails for that category", listing)
        ELSE IF Listed(e, 5) = <<>>
        THEN Out([BlankResp EXCEPT !.keys = {"reply", "emails", "action_type"},
                                   !.reply = "No emails found in", !.action_type = "read",
                                   !.label = LabelName(label_id)], listing)
        ELSE Out([ListFor(Listed(e, 5), "read") EXCEPT !.reply = "Top 5 emails in",
                                                       !.label = LabelName(label_id)],
                 listing)

_handle_help == Out(Reply("I'm your AI email assistant! Here's what I can do"), <<>>)

\* (a variant that lets the failure of the generation call out)
UnknownIntentRaises(e) ==
    IF GenOk(1, e)
    THEN Out([Reply("the service's reply") EXCEPT !.text = e.gen], GenCall(1, e))
    ELSE Raise("ValueError", "Failed to understand the request", GenCall(1, e))

_handle_unknown_intent(e) ==
    IF GenOk(1, e)
    THEN Out([Reply("the service's reply") EXCEPT !.text = e.gen], GenCall(1, e))
    ELSE Out(Reply("I'm not sure what you'd like to do."), GenCall(1, e))

---------------------------------------------------------------------------
(* app/chatbot/routes.py: chat (POST /message) *)

\* (a variant whose text ends at the next colon)
ReplyTextToColon(message) ==
    LET id(i) == i + Len(Directives.reply_text)
        colon(i) == RunEnd(message, id(i), IdChars) + 1
        hits == {i \in 1..Len(message) :
                    /\ At(message, i, Directives.reply_text, FALSE)
                    /\ colon(i) > id(i)
                    /\ colon(i) + 1 <= Len(message)
                    /\ message[colon(i)] = ":"}
    IN  IF hits = {} THEN [some |-> FALSE, email_id |-> <<>>, reply_text |-> <<>>]
        ELSE LET i == SetMin(hits)
             IN  [some |-> TRUE, email_id |-> SubSeq(message, id(i), colon(i) - 1),
                  reply_text |-> SubSeq(message, colon(i) + 1,
                                        RunEndNot(message, colon(i) + 1, {":"}))]

\* re.search(r"reply_text:([a-zA-Z0-9_-]+):(.+)", message, re.DOTALL):
\* the id and the rest of the message, or no match
ReplyTextDirective(message) ==
    LET id(i) == i + Len(Directives.reply_text)
        colon(i) == RunEnd(message, id(i), IdChars) + 1
        hits == {i \in 1..Len(message) :
                    /\ At(message, i, Directives.reply_text, FALSE)
                    /\ colon(i) > id(i)
                    /\ colon(i) + 1 <= Len(message)
                    /\ message[colon(i)] = ":"}
    IN  IF hits = {} THEN [some |-> FALSE, email_id |-> <<>>, reply_text |-> <<>>]
        ELSE LET i == SetMin(hits)
             IN  [some |-> TRUE, email_id |-> SubSeq(message, id(i), colon(i) - 1),
                  reply_text |-> SubSeq(message, colon(i) + 1, Len(message))]

ValidLabels ==
    {Labels.INBOX, Labels.IMPORTANT, Labels.CATEGORY_PERSONAL, Labels.CATEGORY_SOCIAL, Labels.CATEGORY_PROMOTIONS,
     Labels.CATEGORY_UPDATES, Labels.SPAM}

\* a handler's result with the calls made before it put in front
After(before, h) == [h EXCEPT !.calls = before \o h.calls]

\* (a variant that treats every selection as one to read)
SelectedToRead(e, email_id, action_type) ==
    IF action_type.some /\ action_type.v \in {Words.read, Words.summarize, Words.reply, Words.delete}
    THEN _handle_read_single_email(e, email_id)
    ELSE Out(Reply("I couldn't determine what action to perform."), <<>>)

\* lines 159-169: an email was selected
Selected(e, email_id, action_type) ==
    IF Is(action_type, Words.read) THEN _handle_read_single_email(e, email_id)
    ELSE IF Is(action_type, Words.summarize) THEN _handle_summarize_single_email(e, email_id)
    ELSE IF Is(action_type, Words.reply) THEN _handle_reply_to_single_email(e, email_id)
    ELSE IF Is(action_type, Words.delete) THEN _handle_delete_single_email(e, email_id)
    ELSE Out(Reply("I couldn't determine what action to perform."), <<>>)

\* (a variant that takes the token as it is written)
CategoryExactCase(e, token) ==
    IF token \in ValidLabels THEN _handle_emails_by_category(e, token)
    ELSE Out([Reply("Unknown category.") EXCEPT !.keys = {"reply", "categories"}], <<>>)

\* lines 174-178: a category was picked
Category(e, token) ==
    IF Upper(token) \in ValidLabels THEN _handle_emails_by_category(e, Upper(token))
    ELSE Out([Reply("Unknown category.") EXCEPT !.keys = {"reply", "categories"}], <<>>)

\* parameters.get("num_emails", 5); parameters that are no dict raise
NumEmails(i) == IF i.num_emails.some THEN i.num_emails.n ELSE DefaultNum
NoDict == Raise("Exception", "Sorry, I encountered an error", <<>>)

\* lines 188-235: by intent
ByIntent(e, message) ==
    LET i == _understand_intent(message, e)
        ml == Lower(message)
    IN  After(IntentCall(e),
          IF i.intent = "read" THEN
              IF Contains(ml, Keywords.view_and_read) \/ Contains(ml, Keywords.view_read)
              THEN _handle_show_email_list(e, "read")
              ELSE IF i.parameters = "none" THEN NoDict
              ELSE _handle_read_emails(e, NumEmails(i))
          ELSE IF i.intent = "summarize" THEN
              IF Contains(ml, Keywords.summarize_emails)
              THEN _handle_show_email_list(e, "summarize")
              ELSE IF i.parameters = "none" THEN NoDict
              ELSE _handle_summarize_emails(e, NumEmails(i))
          ELSE IF i.intent = "reply" THEN
              IF Contains(ml, Keywords.reply_and_compose) \/ Contains(ml, Keywords.reply_compose)
              THEN _handle_show_email_list(e, "reply")
              ELSE _handle_reply_intent(e, message)
          ELSE IF i.intent = "delete" THEN
              IF Contains(ml, Keywords.delete_and_organize) \/ Contains(ml, Keywords.delete_organize)
              THEN _handle_show_email_list(e, "delete")
              ELSE _handle_delete_intent(e, message)
          ELSE IF i.intent = "digest" THEN _handle_daily_digest(e)
          ELSE IF i.intent = "show_categories" THEN _handle_show_categories
          ELSE IF i.intent = "group" THEN _handle_smart_grouping(e)
          ELSE IF i.intent \in {"greeting", "help"} THEN _handle_help
          ELSE _handle_unknown_intent(e))

\* (a variant that answers a ValueError only)
CaughtValueError(h) ==
    IF h.raised = "" THEN Out(h.resp, h.calls)
    ELSE IF h.raised = "ValueError"
    THEN Out([h.resp EXCEPT !.detail = Failure(h.calls)], h.calls)
    ELSE Out(HttpError(500), h.calls)

\* lines 237-255: a ValueError becomes its text, which ends with the text of
\* the failure that caused it; any other exception becomes the steps to
\* enable the API when its text names accessNotConfigured, else an apology
\* with its text
Caught(h) ==
    IF h.raised = "" THEN Out(h.resp, h.calls)
    ELSE IF h.raised = "ValueError"
    THEN Out([h.resp EXCEPT !.detail = Failure(h.calls)], h.calls)
    ELSE IF h.calls # <<>> /\ h.calls[Len(h.calls)].error = "disabled"
    THEN Out([Reply("Gmail API is not enabled in your Google Cloud project.") EXCEPT
                 !.detail = "Gmail API is not enabled ... 1. Go to ... 5. Try again"],
             h.calls)
    ELSE Out([Reply("Sorry, I encountered an error") EXCEPT !.detail = "str(e)"], h.calls)

\* (a variant that looks for the category before the selected email)
ChatCategoryFirst(payload_message, e) ==
    LET message == Strip(payload_message)
        email_id == SearchToken(message, Directives.email_id, IdChars)
        action_type == SearchToken(message, Directives.action_type, Letters)
        category == SearchToken(message, Directives.category, IdChars)
        composed == ReplyTextDirective(message)
    IN  IF message = <<>> THEN Out(Reply("Please provide a message."), <<>>)
        ELSE IF ~e.client
        THEN Caught(Raise("Exception", "Sorry, I encountered an error", ClientCall(e)))
        ELSE Caught(After(ClientCall(e),
                 IF category.some THEN Category(e, category.v)
                 ELSE IF email_id.some THEN Selected(e, email_id.v, action_type)
                 ELSE IF composed.some
                 THEN _handle_user_composed_reply(e, composed.email_id,
                                                  Strip(composed.reply_text))
                 ELSE ByIntent(e, message)))

\* (a variant that builds the client before it looks at the message)
ChatClientFirst(payload_message, e) ==
    LET message == Strip(payload_message)
        email_id == SearchToken(message, Directives.email_id, IdChars)
        action_type == SearchToken(message, Directives.action_type, Letters)
        category == SearchToken(message, Directives.category, IdChars)
        composed == ReplyTextDirective(message)
    IN  IF ~e.client
        THEN Caught(Raise("Exception", "Sorry, I encountered an error", ClientCall(e)))
        ELSE IF message = <<>> THEN Out(Reply("Please provide a message."), ClientCall(e))
        ELSE Caught(After(ClientCall(e),
                 IF email_id.some THEN Selected(e, email_id.v, action_type)
                 ELSE IF category.some THEN Category(e, category.v)
                 ELSE IF composed.some
                 THEN _handle_user_composed_reply(e, composed.email_id,
                                                  Strip(composed.reply_text))
                 ELSE ByIntent(e, message)))

chat(payload_message, e) ==
    LET message == Strip(payload_message)
        email_id == SearchToken(message, Directives.email_id, IdChars)
        action_type == SearchToken(message, Directives.action_type, Letters)
        category == SearchToken(message, Directives.category, IdChars)
        composed == ReplyTextDirective(message)
    IN  IF message = <<>> THEN Out(Reply("Please provide a message."), <<>>)
        ELSE IF ~e.client
        THEN Caught(Raise("Exception", "Sorry, I encountered an error", ClientCall(e)))
        ELSE Caught(After(ClientCall(e),
                 IF email_id.some THEN Selected(e, email_id.v, action_type)
                 ELSE IF category.some THEN Category(e, category.v)
                 ELSE IF composed.some
                 THEN _handle_user_composed_reply(e, composed.email_id,
                                                  Strip(composed.reply_text))
                 ELSE ByIntent(e, message)))

---------------------------------------------------------------------------
(* app/chatbot/routes.py: confirm_action (POST /confirm-action) *)

\* (a variant that takes the four words only)
IsConfirmExact(confirmation) == confirmation \in {Words.yes, Words.confirm, Words.send, Words.y}

\* is_confirm, of the trimmed and lower-cased text
IsConfirm(confirmation) ==
    \/ confirmation \in {Words.yes, Words.confirm, Words.send, Words.y}
    \/ Contains(confirmation, Words.yes)
    \/ Contains(confirmation, Words.confirm)

\* (payload.get("confirmation") or "").strip().lower()
ConfirmationText(c) == Lower(Strip(IF Truthy(c) THEN c.v ELSE <<>>))

Resolved(text, status) ==
    [BlankResp EXCEPT !.keys = {"reply", "status"}, !.reply = text, !.status = status]
Failed(cs) ==
    Out([Resolved("Failed to complete action", "error") EXCEPT !.detail = Failure(cs)], cs)

\* (a variant that sends whatever text it is given)
ConfirmSendReplyUnchecked(p, e) ==
    IF ~Truthy(p.email_id)
    THEN Out(Resolved("Missing email ID or reply text.", "error"), <<>>)
    ELSE LET text == IF p.reply_text.some THEN p.reply_text.v ELSE <<>>
         IN  IF ~ReplyOk(p.email_id.v, e) THEN Failed(SendCall(p.email_id.v, text, e))
             ELSE Out([Resolved("Successfully sent your reply!", "success") EXCEPT
                          !.keys = {"reply", "status", "result"}, !.message_id = e.mutate],
                      SendCall(p.email_id.v, text, e))

\* lines 892-901
ConfirmSendReply(p, e) ==
    IF ~Truthy(p.email_id) \/ ~Truthy(p.reply_text)
    THEN Out(Resolved("Missing email ID or reply text.", "error"), <<>>)
    ELSE IF ~ReplyOk(p.email_id.v, e)
    THEN Failed(SendCall(p.email_id.v, p.reply_text.v, e))
    ELSE Out([Resolved("Successfully sent your reply!", "success") EXCEPT
                 !.keys = {"reply", "status", "result"}, !.message_id = e.mutate],
             SendCall(p.email_id.v, p.reply_text.v, e))

\* (a variant in which a failed fetch of the subject ends the request)
ConfirmDeleteStrict(p, e) ==
    IF ~Truthy(p.email_id)
    THEN Out(Resolved("Missing email ID.", "error"), <<>>)
    ELSE IF ~GetOk(p.email_id.v, e) THEN Failed(GetCall(p.email_id.v, e))
    ELSE IF ~TrashOk(p.email_id.v, e)
    THEN Failed(GetCall(p.email_id.v, e) \o TrashCall(p.email_id.v, e))
    ELSE Out([Resolved("Email moved to trash", "success") EXCEPT
                 !.keys = {"reply", "status", "result"},
                 !.subject = MailOf(p.email_id.v).subject],
             GetCall(p.email_id.v, e) \o TrashCall(p.email_id.v, e))

\* lines 903-919
ConfirmDelete(p, e) ==
    IF ~Truthy(p.email_id)
    THEN Out(Resolved("Missing email ID.", "error"), <<>>)
    ELSE LET id == p.email_id.v
             cs == GetCall(id, e) \o TrashCall(id, e)
         IN  IF ~TrashOk(id, e) THEN Failed(cs)
             ELSE Out([Resolved("Email moved to trash", "success") EXCEPT
                          !.keys = {"reply", "status", "result"},
                          !.subject = IF GetOk(id, e) THEN MailOf(id).subject ELSE Words.email],
                      cs)

\* (a variant that fetches the email before it looks at the confirmation)
ConfirmFetchFirst(p, e) ==
    IF ~e.client THEN Failed(ClientCall(e))
    ELSE IF ~IsConfirm(ConfirmationText(p.confirmation))
    THEN Out(Resolved("Action cancelled.", "cancelled"),
             ClientCall(e) \o GetCall(IF p.email_id.some THEN p.email_id.v ELSE <<>>, e))
    ELSE After(ClientCall(e),
               IF Is(p.action, Words.send_reply) THEN ConfirmSendReply(p, e)
               ELSE IF Is(p.action, Words.delete) THEN ConfirmDelete(p, e)
               ELSE Out(Resolved("Unknown action.", "error"), <<>>))

\* (a variant that takes every action but send_reply for a delete)
ConfirmDeleteByDefault(p, e) ==
    IF ~IsConfirm(ConfirmationText(p.confirmation))
    THEN Out(Resolved("Action cancelled.", "cancelled"), <<>>)
    ELSE IF ~e.client THEN Failed(ClientCall(e))
    ELSE After(ClientCall(e),
               IF Is(p.action, Words.send_reply) THEN ConfirmSendReply(p, e)
               ELSE ConfirmDelete(p, e))

confirm_action(p, e) ==
    IF ~IsConfirm(ConfirmationText(p.confirmation))
    THEN Out(Resolved("Action cancelled.", "cancelled"), <<>>)
    ELSE IF ~e.client THEN Failed(ClientCall(e))
    ELSE After(ClientCall(e),
               IF Is(p.action, Words.send_reply) THEN ConfirmSendReply(p, e)
               ELSE IF Is(p.action, Words.delete) THEN ConfirmDelete(p, e)
               ELSE Out(Resolved("Unknown action.", "error"), <<>>))

---------------------------------------------------------------------------
(* app/gmail/routes.py *)


\* DELETE /gmail/delete/{email_id}
delete_email_route(email_id, e) ==
    IF ~e.client THEN Out(HttpError(500), ClientCall(e))
    ELSE IF ~TrashOk(email_id, e)
    THEN Out([HttpError(400) EXCEPT !.detail = Failure(TrashCall(email_id, e))],
             ClientCall(e) \o TrashCall(email_id, e))
    ELSE Out([BlankResp EXCEPT !.keys = {"status", "message"}, !.status = "success"],
             ClientCall(e) \o TrashCall(email_id, e))

\* POST /gmail/reply/{email_id}
reply_email_route(email_id, reply_text, e) ==
    IF ~e.client THEN Out(HttpError(500), ClientCall(e))
    ELSE IF ~ReplyOk(email_id, e)
    THEN Out([HttpError(400) EXCEPT !.detail = Failure(SendCall(email_id, reply_text, e))],
             ClientCall(e) \o SendCall(email_id, reply_text, e))
    ELSE Out([BlankResp EXCEPT !.keys = {"status", "message", "message_id"},
                               !.status = "success", !.message_id = e.mutate],
             ClientCall(e) \o SendCall(email_id, reply_text, e))

---------------------------------------------------------------------------
(* Requests, and what the caller holds between them *)

BlankReq ==
    [kind |-> "none", endpoint |-> "", authorization |-> "", message |-> <<>>,
     action |-> None, email_id |-> None, reply_text |-> None, confirmation |-> None]

NoPending == [action_required |-> "", email_id |-> <<>>, generated_reply |-> <<>>]

Confirmations == {"confirm_send", "confirm_delete"}

\* the pending confirmation of a chat response, as the caller keeps it
Descriptor(r) ==
    IF "action_required" \in r.keys /\ r.action_required \in Confirmations
    THEN [action_required |-> r.action_required, email_id |-> r.email_id,
          generated_reply |-> r.generated_reply]
    ELSE NoPending

\* The payload with which the caller sends a pending confirmation back,
\* unmodified: the descriptor {action, email_id, reply_text?}.
Echo(h, confirmation) ==
    [action |-> Some(IF h.action_required = "confirm_send" THEN Words.send_reply ELSE Words.delete),
     email_id |-> Some(h.email_id),
     reply_text |-> IF h.action_required = "confirm_send" THEN Some(h.generated_reply)
                    ELSE None,
     confirmation |-> Some(confirmation)]

\* what a request may carry as its Authorization header: a session token
\* that verifies and holds an access token; no header at all; a token that
\* does not verify (not a token of this service, or expired); a token that
\* verifies and holds no access token
Authorizations == {"valid", "absent", "invalid", "expired", "no access_token"}

\* get_access_token: the access token of a verified session token, else
\* 401; the header is required (Header(...)), so that a request without it
\* is answered by the handler of RequestValidationError with 422
get_access_token(authorization) ==
    IF authorization = "valid" THEN Out(BlankResp, <<>>)
    ELSE IF authorization = "absent" THEN Out(HttpError(422), <<>>)
    ELSE Out(HttpError(401), <<>>)

---------------------------------------------------------------------------
(* Inputs *)

Messages ==
    {Msgs.empty, Msgs.spaces, Msgs.sel_read, Msgs.sel_summarize, Msgs.sel_reply, Msgs.sel_delete,
     Msgs.sel_delete_zz, Msgs.sel_none, Msgs.sel_archive, Msgs.sel_Delete, Msgs.sel_deleted, Msgs.sel_read2,
     Msgs.sel_empty_type, Msgs.sel_no_id, Msgs.sel_mixed, Msgs.cat_spam, Msgs.cat_promo, Msgs.cat_bogus,
     Msgs.rt_thanks, Msgs.rt_zz, Msgs.rt_no_text, Msgs.show, Msgs.view_read, Msgs.summarize, Msgs.summary3,
     Msgs.help_reply, Msgs.reply_compose, Msgs.reply_1, Msgs.reply_bob, Msgs.answer, Msgs.delete,
     Msgs.delete_organize, Msgs.delete_2, Msgs.delete_9, Msgs.delete_from, Msgs.delete_about,
     Msgs.delete_2nd, Msgs.digest, Msgs.categorize, Msgs.group, Msgs.hello, Msgs.help, Msgs.xyzzy,
     Msgs.rt_category, Msgs.rt_email_id, Msgs.rt_colons, Msgs.cat_social, Msgs.cat_important,
     Msgs.organize, Msgs.reply_or_delete, Msgs.thread, Msgs.show_3_4, Msgs.help_delete_2,
     Msgs.help_reply_2, Msgs.delete_2_carol, Msgs.delete_0_carol, Msgs.delete_7_lunch,
     Msgs.reply_3_bob, Msgs.reply_9_bob, Msgs.reply_5th, Msgs.reply_about, Msgs.read_2,
     Msgs.read_9, Msgs.help_delete}

\* what messages.list may answer
Listings ==
    {[ok |-> FALSE, ids |-> <<>>, skip |-> {}],
     [ok |-> TRUE, ids |-> <<>>, skip |-> {}],
     [ok |-> TRUE, ids |-> <<MailData.m1, MailData.m2, MailData.m3>>, skip |-> {}],
     [ok |-> TRUE, ids |-> <<MailData.m1, MailData.m2, MailData.m3>>, skip |-> {MailData.m1}],
     [ok |-> TRUE, ids |-> <<MailData.m3, MailData.m1>>, skip |-> {}],
     [ok |-> TRUE, ids |-> <<MailData.m1, MailData.m2, MailData.m3, MailData.m4, MailData.m5, MailData.m6>>,
      skip |-> {}]}

FetchFailures == {{}, {MailData.m1}, MailIds}
IntentAnswers ==
    {None, Some(Answers.intent_delete), Some(Answers.intent_reply), Some(Answers.intent_read_nested), Some(Answers.intent_prose),
     Some(Answers.intent_malformed), Some(Answers.intent_archive), Some(Answers.intent_no_intent), Some(Answers.intent_null_params),
     Some(Answers.intent_empty_params)}
Generated == {Answers.draft, <<>>}
MaxGen == 3
GenFailures == {{}, {1}, 1..MaxGen}

NoClient == [Env0 EXCEPT !.client = FALSE]

\* the message names an email, a category or a composed reply, so that the
\* intent prompt is never sent
Directed(m) ==
    \/ SearchToken(Strip(m), Directives.email_id, IdChars).some
    \/ SearchToken(Strip(m), Directives.category, IdChars).some
    \/ ReplyTextDirective(Strip(m)).some

\* the environments of a chat turn: no client; every listing and every
\* answer to the intent prompt; and, on the full listing, every failure of
\* the fetches and of the generation
FullListing == [ok |-> TRUE, ids |-> <<MailData.m1, MailData.m2, MailData.m3>>, skip |-> {}]
\* every class of provider error, on the client, on the listing and on
\* the fetches
ErrorEnvs ==
    {[Env0 EXCEPT !.client = FALSE, !.err = "disabled"]}
    \cup {[Env0 EXCEPT !.list = [ok |-> FALSE, ids |-> <<>>, skip |-> {}], !.err = c] :
             c \in ErrorClasses}
    \cup {[Env0 EXCEPT !.list = FullListing, !.nofetch = MailIds, !.err = c] :
             c \in ErrorClasses}
\* a mailbox of MailboxSize messages, all fetched, or two of them not
LargeListing == [ok |-> TRUE, ids |-> [k \in 1..MailboxSize |-> Mail[k].id], skip |-> {}]
LargeEnvs ==
    {[Env0 EXCEPT !.list = LargeListing, !.nofetch = nf, !.gen = Answers.draft] :
        nf \in {{}, {Mail[2].id, Mail[MailboxSize - 1].id}}}
ChatEnvs(m) ==
    LET intents == IF Directed(m) THEN {None} ELSE IntentAnswers
    IN  {NoClient}
        \cup {[Env0 EXCEPT !.list = l, !.intent = i, !.gen = Answers.draft] :
                 l \in Listings, i \in intents}
        \cup {[Env0 EXCEPT !.list = FullListing, !.nofetch = nf, !.intent = i,
                           !.gen = g, !.genfail = gf] :
                 nf \in FetchFailures, i \in intents, g \in Generated,
                 gf \in GenFailures}
        \cup ErrorEnvs \cup LargeEnvs

\* the environments of a confirmation and of the mailbox routes
MutateEnvs ==
    {NoClient} \cup
    {[Env0 EXCEPT !.nofetch = nf, !.mutate = mu] :
        nf \in {{}, MailIds}, mu \in {"p1", "p2", "fail"}}
    \cup {[Env0 EXCEPT !.nofetch = nf, !.mutate = "fail", !.err = c] :
             nf \in {{}, MailIds}, c \in ErrorClasses}

ConfirmationTexts ==
    {Some(Words.yes), Some(Words.confirm), Some(Words.send), Some(Words.y), Some(Texts.YES),
     Some(Texts.ConfirmBang), Some(Texts.please_confirm), Some(Texts.padded_y), Some(Texts.Send),
     Some(Texts.yesterday), Some(Texts.dont_confirm), Some(Texts.no), Some(Texts.nah), Some(Texts.send_it),
     Some(Texts.ok), Some(Texts.blank), Some(<<>>), None}

Payload(a, id, text, c) ==
    [action |-> a, email_id |-> id, reply_text |-> text, confirmation |-> c]

\* every confirmation text on a delete and on a send_reply, every payload
\* with an affirming and with a cancelling text, and the echo of what the
\* caller holds
ConfirmPayloads(h) ==
    {Payload(Some(Words.delete), Some(MailData.m1), None, c) : c \in ConfirmationTexts}
    \cup {Payload(Some(Words.send_reply), Some(MailData.m2), Some(Texts.reply_thanks), c) : c \in ConfirmationTexts}
    \cup {Payload(a, id, text, c) :
            a \in {None, Some(Words.send_reply), Some(Words.delete), Some(Texts.action_archive), Some(Texts.action_Delete)},
            id \in {None, Some(<<>>), Some(MailData.m1), Some(MailData.m3), Some(MailData.zz)},
            text \in {None, Some(<<>>), Some(Texts.reply_thanks)},
            c \in {Some(Words.yes), Some(Texts.no)}}
    \cup IF h.action_required \in Confirmations
         THEN {Echo(h, c) : c \in {Words.yes, Texts.ConfirmBang, Texts.nah}}
         ELSE {}

RouteIds == {MailData.m1, MailData.zz}
RouteTexts == {Texts.reply_hi, <<>>}
Endpoints == {"message", "confirm-action", "delete", "reply"}

---------------------------------------------------------------------------
(* The service *)

Init ==
    /\ req = BlankReq
    /\ resp = BlankResp
    /\ calls = <<>>
    /\ held = NoPending

Idle == req.kind = "none"

\* POST /chatbot/message.  The caller keeps the pending confirmation of the
\* response; a run follows one pending confirmation, from the chat turn that
\* returns it through the requests that resolve it, so that held is also the
\* record of what the chat turns of the run have issued.
ChatTurn(m, e) ==
    /\ Idle
    /\ held = NoPending
    /\ \E h \in {chat(m, e)} :
           /\ req' = [BlankReq EXCEPT !.kind = "chat", !.authorization = "valid", !.message = m]
           /\ resp' = h.resp
           /\ calls' = h.calls
           /\ held' = Descriptor(h.resp)

\* POST /chatbot/confirm-action
ConfirmAction(p, e) ==
    /\ Idle
    /\ \E h \in {confirm_action(p, e)} :
           /\ req' = [BlankReq EXCEPT !.kind = "confirm", !.authorization = "valid", !.action = p.action,
                         !.email_id = p.email_id, !.reply_text = p.reply_text,
                         !.confirmation = p.confirmation]
           /\ resp' = h.resp
           /\ calls' = h.calls
    /\ UNCHANGED held

\* DELETE /gmail/delete/{email_id}
DeleteEmailRoute(email_id, e) ==
    /\ Idle
    /\ \E h \in {delete_email_route(email_id, e)} :
           /\ req' = [BlankReq EXCEPT !.kind = "delete", !.authorization = "valid", !.email_id = Some(email_id)]
           /\ resp' = h.resp
           /\ calls' = h.calls
    /\ UNCHANGED held

\* POST /gmail/reply/{email_id}
ReplyEmailRoute(email_id, reply_text, e) ==
    /\ Idle
    /\ \E h \in {reply_email_route(email_id, reply_text, e)} :
           /\ req' = [BlankReq EXCEPT !.kind = "reply", !.authorization = "valid", !.email_id = Some(email_id),
                         !.reply_text = Some(reply_text)]
           /\ resp' = h.resp
           /\ calls' = h.calls
    /\ UNCHANGED held

\* a request without a valid session token is answered by get_access_token
Unauthorized(endpoint, authorization) ==
    /\ Idle
    /\ req' = [BlankReq EXCEPT !.kind = "unauthorized", !.endpoint = endpoint,
                  !.authorization = authorization]
    /\ resp' = get_access_token(authorization).resp
    /\ calls' = get_access_token(authorization).calls
    /\ UNCHANGED held

\* the response is delivered
Respond ==
    /\ ~Idle
    /\ req' = BlankReq
    /\ resp' = BlankResp
    /\ calls' = <<>>
    /\ UNCHANGED held

Next ==
    \/ \E m \in Messages : \E e \in ChatEnvs(m) : ChatTurn(m, e)
    \/ \E p \in ConfirmPayloads(held) : \E e \in MutateEnvs : ConfirmAction(p, e)
    \/ \E id \in RouteIds : \E e \in MutateEnvs : DeleteEmailRoute(id, e)
    \/ \E id \in RouteIds : \E text \in RouteTexts : \E e \in MutateEnvs :
          ReplyEmailRoute(id, text, e)
    \/ \E endpoint \in Endpoints : \E authorization \in Authorizations \ {"valid"} :
          Unauthorized(endpoint, authorization)
    \/ Respond

Spec == Init /\ [][Next]_vars

---------------------------------------------------------------------------
(* _understand_intent on its own: a message and what gemini answers to the
   intent prompt go in, the intent data comes out (in resp) *)

UnderstandIntent(m, i) ==
    /\ Idle
    /\ req' = [BlankReq EXCEPT !.kind = "intent", !.message = m]
    /\ resp' = _understand_intent(m, [Env0 EXCEPT !.intent = i])
    /\ calls' = IntentCall([Env0 EXCEPT !.intent = i])
    /\ UNCHANGED held

\* the rules of the fallback as the code lists them: the words and phrases
\* of each rule, and its intent
ListedRules ==
    <<[words |-> {Keywords.read, Keywords.show, Keywords.list, Keywords.display, Keywords.view,
                  Keywords.view_and_read}, intent |-> "read"],
      [words |-> {Keywords.summarize, Keywords.summary, Keywords.summarise,
                  Keywords.summarize_emails}, intent |-> "summarize"],
      [words |-> {Keywords.reply, Keywords.respond, Keywords.answer, Keywords.compose,
                  Keywords.reply_and_compose, Keywords.help_me_reply}, intent |-> "reply"],
      [words |-> {Keywords.delete, Keywords.remove, Keywords.trash, Keywords.organize,
                  Keywords.delete_and_organize, Keywords.help_me_delete}, intent |-> "delete"],
      [words |-> {Keywords.digest, Keywords.today, Keywords.daily, Keywords.overview,
                  Keywords.daily_digest}, intent |-> "digest"],
      [words |-> {Keywords.categorize_mails, Keywords.categorize_emails, Keywords.show_categories},
       intent |-> "show_categories"],
      [words |-> {Keywords.group, Keywords.categorize, Keywords.category, Keywords.organize},
       intent |-> "group"],
      [words |-> {Keywords.hello, Keywords.hi, Keywords.hey, Keywords.greetings},
       intent |-> "greeting"],
      [words |-> {Keywords.help, Keywords.what_can, Keywords.capabilities}, intent |-> "help"]>>

\* every message of the chat turns, and every word and phrase of the rules
\* as a message of its own
ExtractNext ==
    \/ \E m \in Messages \cup UNION {ListedRules[k].words : k \in DOMAIN ListedRules} :
          \E i \in IntentAnswers : UnderstandIntent(m, i)
    \/ Respond

ExtractSpec == Init /\ [][ExtractNext]_vars

---------------------------------------------------------------------------
(* One pending confirmation, sent back again and again: a chat turn returns
   it, the caller echoes it with one confirmation text after another, and
   calls keeps the mutating calls the gateway has seen since the turn *)

\* the chat messages that ask for a reply or for a delete
PendingMessages ==
    {Msgs.rt_thanks, Msgs.rt_colons, Msgs.reply_1, Msgs.reply_bob, Msgs.sel_delete,
     Msgs.delete_2, Msgs.xyzzy}
MaxResolves == 3
Mutating(cs) == SelectSeq(cs, LAMBDA c : c.op \in MutatingOps)

\* POST /chatbot/message
IssueTurn(m, e) ==
    /\ held = NoPending
    /\ \E h \in {chat(m, e)} :
           /\ req' = [BlankReq EXCEPT !.kind = "chat", !.authorization = "valid", !.message = m]
           /\ resp' = h.resp
           /\ calls' = calls \o Mutating(h.calls)
           /\ held' = Descriptor(h.resp)

\* (a variant that keeps a record: it answers a confirmation whose action
\* the gateway has carried out already without calling the gateway again)
ResolveOnce(confirmation, e) ==
    /\ held.action_required \in Confirmations
    /\ Len(calls) < MaxResolves
    /\ \E h \in {IF \E i \in 1..Len(calls) : calls[i].ok /\ calls[i].id = held.email_id
                  THEN Out(Resolved("Successfully sent your reply!", "success"), <<>>)
                  ELSE confirm_action(Echo(held, confirmation), e)} :
           /\ req' = [BlankReq EXCEPT !.kind = "confirm", !.authorization = "valid",
                         !.action = Echo(held, confirmation).action,
                         !.email_id = Echo(held, confirmation).email_id,
                         !.reply_text = Echo(held, confirmation).reply_text,
                         !.confirmation = Some(confirmation)]
           /\ resp' = h.resp
           /\ calls' = calls \o Mutating(h.calls)
    /\ UNCHANGED held

\* POST /chatbot/confirm-action with the descriptor the caller holds
Resolve(confirmation, e) ==
    /\ held.action_required \in Confirmations
    /\ Len(calls) < MaxResolves
    /\ \E h \in {confirm_action(Echo(held, confirmation), e)} :
           /\ req' = [BlankReq EXCEPT !.kind = "confirm", !.authorization = "valid",
                         !.action = Echo(held, confirmation).action,
                         !.email_id = Echo(held, confirmation).email_id,
                         !.reply_text = Echo(held, confirmation).reply_text,
                         !.confirmation = Some(confirmation)]
           /\ resp' = h.resp
           /\ calls' = calls \o Mutating(h.calls)
    /\ UNCHANGED held

ResolveNext ==
    \/ \E m \in PendingMessages : \E e \in ChatEnvs(m) : IssueTurn(m, e)
    \* what the caller types to resolve it; the mailbox sends and trashes,
    \* or fails to, or no client can be built
    \/ \E confirmation \in {Words.yes, Words.send, Texts.ConfirmBang, Texts.nah} :
          \E e \in {Env0, [Env0 EXCEPT !.mutate = "fail"], NoClient} : Resolve(confirmation, e)

ResolveSpec == Init /\ [][ResolveNext]_vars

---------------------------------------------------------------------------
(* Chat turns in flight together.  Each turn runs chat on its own thread:
   req, resp and held are per turn (held[t] is what the turn's frame holds:
   the client it built and how many of its calls it has made), and calls is
   the order in which the calls of all turns reached the gateway and the
   text-generation service *)

Turns == {1, 2}
\* what the provider answers for the mailbox an access token opens
Mailbox(access_token) ==
    IF access_token = "token A"
    THEN [Env0 EXCEPT !.list = FullListing, !.gen = Answers.draft]
    ELSE [Env0 EXCEPT !.list = [ok |-> TRUE, ids |-> <<MailData.m3, MailData.m1>>, skip |-> {}],
                      !.nofetch = {MailData.m1}, !.gen = Answers.draft]
NoFrame == [service |-> "", done |-> 0]

ConcurrentInit ==
    /\ req = [t \in Turns |-> BlankReq]
    /\ resp = [t \in Turns |-> BlankResp]
    /\ calls = <<>>
    /\ held = [t \in Turns |-> NoFrame]

\* the run of chat for turn t, against the mailbox of the client it holds
Run(t) ==
    chat(req[t].message,
         Mailbox(IF held[t].service = "" THEN req[t].authorization ELSE held[t].service))
\* a call as it reaches the gateway: with the token of the client the turn
\* holds (gemini is called with no token)
Reaches(t, call, service) ==
    [turn |-> t, call |-> call,
     token |-> IF call.op \in {"generate", "generate_intent"} THEN "" ELSE service]

\* a request arrives: get_access_token gives chat the access token of the
\* caller's session token
Accept(t, m, access_token) ==
    /\ req[t].kind = "none"
    /\ req' = [req EXCEPT ![t] = [BlankReq EXCEPT !.kind = "chat", !.message = m,
                                                  !.authorization = access_token]]
    /\ UNCHANGED <<resp, calls, held>>

\* (a variant with one client for the module: the first turn that needs a
\* client builds it, every later turn takes that one)
SharedClient(t, h) ==
    /\ req[t].kind = "chat"
    /\ held[t].service = ""
    /\ h.calls # <<>>
    /\ LET built == {u \in Turns : held[u].service # ""}
           service == IF built = {} THEN req[t].authorization
                      ELSE held[CHOOSE u \in built : TRUE].service
       IN  /\ held' = [held EXCEPT ![t] = [service |-> service, done |-> 1]]
           /\ calls' = Append(calls, Reaches(t, h.calls[1], service))
    /\ UNCHANGED <<req, resp>>

\* service = get_gmail_service(access_token), a local of the turn
BuildClient(t, h) ==
    /\ req[t].kind = "chat"
    /\ held[t].service = ""
    /\ h.calls # <<>>
    /\ held' = [held EXCEPT ![t] = [service |-> req[t].authorization, done |-> 1]]
    /\ calls' = Append(calls, Reaches(t, h.calls[1], req[t].authorization))
    /\ UNCHANGED <<req, resp>>

\* the next call of the turn's handler, made through the turn's client
NextCall(t, h) ==
    /\ held[t].service # ""
    /\ held[t].done < Len(h.calls)
    /\ calls' = Append(calls, Reaches(t, h.calls[held[t].done + 1], held[t].service))
    /\ held' = [held EXCEPT ![t].done = @ + 1]
    /\ UNCHANGED <<req, resp>>

\* the handler returns
Answer(t, h) ==
    /\ req[t].kind = "chat"
    /\ resp[t] = BlankResp
    /\ held[t].done = Len(h.calls)
    /\ resp' = [resp EXCEPT ![t] = h.resp]
    /\ UNCHANGED <<req, calls, held>>

\* one step of turn t: h is what its handler does from start to end
Step(t) ==
    \E h \in {Run(t)} :
        \/ BuildClient(t, h)
        \/ NextCall(t, h)
        \/ Answer(t, h)

ConcurrentNext ==
    \/ \E t \in Turns : \E m \in {Msgs.empty, Msgs.sel_delete, Msgs.rt_thanks, Msgs.view_read} :
          \E access_token \in {"token A", "token B"} : Accept(t, m, access_token)
    \/ \E t \in Turns : Step(t)

ConcurrentSpec == ConcurrentInit /\ [][ConcurrentNext]_vars

---------------------------------------------------------------------------
(* A listing, and a later turn that names one of its emails by number:
   held is the numbered listing the caller was shown last *)

FollowUpInit ==
    /\ req = BlankReq
    /\ resp = BlankResp
    /\ calls = <<>>
    /\ held = <<>>

\* the mailbox behind a turn: at first any listing; later what it listed
\* then, or a message that has arrived since and then those
FollowUpEnvs ==
    IF held = <<>>
    THEN {[Env0 EXCEPT !.list = l, !.gen = Answers.draft] : l \in Listings}
    ELSE {[Env0 EXCEPT !.list = [ok |-> TRUE, ids |-> arrived \o held, skip |-> {}],
                       !.intent = i, !.nofetch = nf, !.gen = Answers.draft] :
             arrived \in {<<>>, <<MailData.m4>>},
             i \in {None, Some(Answers.intent_delete), Some(Answers.intent_reply)},
             nf \in FetchFailures}

\* POST /chatbot/message; the caller keeps the first listing it is shown
FollowUp(m, e) ==
    \E h \in {chat(m, e)} :
        /\ req' = [BlankReq EXCEPT !.kind = "chat", !.authorization = "valid", !.message = m]
        /\ resp' = h.resp
        /\ calls' = h.calls
        /\ held' = IF held = <<>> THEN h.resp.emails ELSE held

\* the turns a caller takes: first one that shows a listing, then ones that
\* name an email by its number
FollowUpNext ==
    \E m \in (IF held = <<>>
              THEN {Msgs.view_read, Msgs.reply_compose, Msgs.delete_organize, Msgs.show}
              ELSE {Msgs.delete_2, Msgs.delete_2nd, Msgs.reply_1, Msgs.help_reply_2}) :
        \E e \in FollowUpEnvs : FollowUp(m, e)

FollowUpSpec == FollowUpInit /\ [][FollowUpNext]_vars

---------------------------------------------------------------------------
(* Properties *)

\* the calls of the request that went to a mutating operation of the gateway
MutatingCalls == SelectSeq(calls, LAMBDA c : c.op \in MutatingOps)
\* get_gmail_service gave the request a mailbox client
HasClient == \E i \in 1..Len(calls) : calls[i].op = "client" /\ calls[i].ok
\* the request is a confirmation whose text affirms
Affirmed == req.kind = "confirm" /\ IsConfirm(ConfirmationText(req.confirmation))
\* the text after the first `lit` of the message, up to the next white space
\* (None when the message has no `lit`)
TokenAfter(message, lit) ==
    LET hits == {i \in 1..Len(message) : At(message, i, lit, FALSE)}
    IN  IF hits = {} THEN None
        ELSE LET j == SetMin(hits) + Len(lit)
             IN  Some(SubSeq(message, j, RunEndNot(message, j, Whitespace)))
ActionTypes == {Words.read, Words.summarize, Words.reply, Words.delete}

\* C1: a chat turn, whatever the message and whatever the gateway and the
\* text-generation service answer, calls neither trash nor send; it ends in a
\* reply, which is final or asks for a confirmation (or a composed text).
C1_ChatNeverMutates ==
    req.kind = "chat" =>
        /\ MutatingCalls = <<>>
        /\ resp.http = 200
        /\ "reply" \in resp.keys
        /\ \/ "action_required" \notin resp.keys
           \/ resp.action_required \in Confirmations \cup {"compose_reply"}

C1_Witness ==
    /\ req.kind = "chat"
    /\ req.message = Msgs.delete_from
    /\ resp.action_required = "confirm_delete"
    /\ resp.email_id = MailData.m3
    /\ Ops(calls) = {"client", "generate_intent", "list"}

\* C2: whenever a request calls trash or send for an email id, the request is
\* a confirmation that affirms and sends back the pending confirmation which
\* a chat turn before it returned for that same email id.
C2_MutationOnlyAfterConfirmedDescriptor ==
    \A i \in 1..Len(calls) :
        calls[i].op \in MutatingOps =>
            /\ Affirmed
            /\ held.action_required \in Confirmations
            /\ held.email_id = calls[i].id
            /\ req.action = Echo(held, <<>>).action
            /\ req.email_id = Echo(held, <<>>).email_id
            /\ req.reply_text = Echo(held, <<>>).reply_text

\* C3: when the caller sends a pending confirmation of a chat turn back
\* unmodified with an affirming text, and the resolver gets a mailbox client,
\* then exactly one mutating gateway call is made, for the same email id.
C3_EchoMutatesOnce ==
    ( /\ Affirmed
      /\ HasClient
      /\ held.action_required \in Confirmations
      /\ req.action = Echo(held, <<>>).action
      /\ req.email_id = Echo(held, <<>>).email_id
      /\ req.reply_text = Echo(held, <<>>).reply_text )
    => /\ Len(MutatingCalls) = 1
       /\ MutatingCalls[1].id = held.email_id

\* C4: the resolver goes on (does not cancel) exactly when the confirmation
\* text, trimmed and in lower case, is "yes", "confirm", "send" or "y" or has
\* "yes" or "confirm" in it; "YES", "Confirm!" and "please confirm" affirm,
\* "no", "nah", the empty text and a missing confirmation cancel.
C4_ConfirmationMatching ==
    req.kind = "confirm" =>
        LET text == Lower(Strip(IF req.confirmation.some THEN req.confirmation.v ELSE <<>>))
            affirms == \/ text = Words.yes \/ text = Words.confirm \/ text = Words.send \/ text = Words.y
                       \/ Contains(text, Words.yes) \/ Contains(text, Words.confirm)
        IN  /\ resp.status # "cancelled" <=> affirms
            /\ req.confirmation \in {Some(Texts.YES), Some(Texts.ConfirmBang), Some(Texts.please_confirm)}
                  => resp.status # "cancelled"
            /\ req.confirmation \in {Some(Texts.no), Some(Texts.nah), Some(<<>>), None}
                  => resp.status = "cancelled"

C4_Witness ==
    /\ req.kind = "confirm"
    /\ req.confirmation = Some(Texts.please_confirm)
    /\ resp.status = "success"
    /\ Len(MutatingCalls) = 1

\* C5: when the confirmation text does not affirm, the resolver answers with
\* status "cancelled" and calls nothing of the gateway (no list, get, trash or
\* send), whatever the action, the email id and the reply text are.
C5_CancelCallsNothing ==
    (req.kind = "confirm" /\ ~Affirmed) =>
        /\ resp.status = "cancelled"
        /\ Ops(calls) \cap {"list", "get", "trash", "send"} = {}

C5_Witness ==
    /\ req.kind = "confirm"
    /\ req.action = Some(Words.send_reply)
    /\ Truthy(req.email_id) /\ Truthy(req.reply_text)
    /\ req.confirmation = Some(Texts.no)
    /\ resp.status = "cancelled"
    /\ calls = <<>>

\* C6: on an affirmed send_reply, a missing or empty email id or reply text
\* gives status "error" and no send; with both present (and a mailbox client)
\* send is called once, for that email id and that text, and the answer is
\* status "success" with the provider's message id when the send succeeds and
\* status "error" when it fails.
C6_AffirmedSendReply ==
    (Affirmed /\ Is(req.action, Words.send_reply)) =>
        LET sends == CallsOf(calls, "send")
        IN  IF ~Truthy(req.email_id) \/ ~Truthy(req.reply_text) \/ ~HasClient
            THEN resp.status = "error" /\ sends = <<>>
            ELSE /\ Len(sends) = 1
                 /\ sends[1].id = req.email_id.v
                 /\ sends[1].text = req.reply_text.v
                 /\ sends[1].ok => /\ resp.status = "success"
                                   /\ resp.message_id = sends[1].ret
                                   /\ resp.message_id # ""
                 /\ ~sends[1].ok => resp.status = "error"

C6_Witness ==
    /\ Affirmed
    /\ Is(req.action, Words.send_reply)
    /\ resp.status = "success"
    /\ resp.message_id = "p2"
    /\ CallsOf(calls, "send")[1].text = Texts.reply_thanks

\* C7: on an affirmed delete with an email id (and a mailbox client), trash is
\* called exactly once for that id whether or not the fetch of the subject
\* before it succeeds; when the fetch fails the subject is the placeholder
\* and the answer is still "success" if trash succeeds; a failure of trash
\* gives status "error"; a missing email id gives "error" and no trash.
C7_AffirmedDelete ==
    (Affirmed /\ Is(req.action, Words.delete)) =>
        LET trashes == CallsOf(calls, "trash")
            gets == CallsOf(calls, "get")
        IN  IF ~Truthy(req.email_id) \/ ~HasClient
            THEN resp.status = "error" /\ trashes = <<>>
            ELSE /\ Len(trashes) = 1
                 /\ trashes[1].id = req.email_id.v
                 /\ Len(gets) = 1
                 /\ trashes[1].ok => resp.status = "success"
                 /\ (trashes[1].ok /\ ~gets[1].ok) => resp.subject = Words.email
                 /\ ~trashes[1].ok => resp.status = "error"

C7_Witness ==
    /\ Affirmed
    /\ Is(req.action, Words.delete)
    /\ Len(CallsOf(calls, "get")) = 1
    /\ ~CallsOf(calls, "get")[1].ok
    /\ Len(CallsOf(calls, "trash")) = 1
    /\ CallsOf(calls, "trash")[1].ok
    /\ resp.status = "success"
    /\ resp.subject = Words.email

\* C8 (as stated): whenever the resolver is called with an action other than
\* send_reply and delete, it answers with status "error" and calls neither
\* trash nor send.
C8_UnknownActionIsError ==
    (req.kind = "confirm" /\ ~Is(req.action, Words.send_reply) /\ ~Is(req.action, Words.delete)) =>
        /\ resp.status = "error"
        /\ MutatingCalls = <<>>

\* C8 (amended): called with an action other than send_reply and delete, the
\* resolver calls neither trash nor send; it answers with status "error" when
\* the confirmation affirms and with status "cancelled" when it does not.
C8_UnknownActionNeverMutates ==
    (req.kind = "confirm" /\ ~Is(req.action, Words.send_reply) /\ ~Is(req.action, Words.delete)) =>
        /\ MutatingCalls = <<>>
        /\ Affirmed => resp.status = "error"
        /\ ~Affirmed => resp.status = "cancelled"

C8_Witness ==
    /\ Affirmed
    /\ req.action = Some(Texts.action_archive)
    /\ Truthy(req.email_id)
    /\ HasClient
    /\ resp.status = "error"
    /\ resp.reply = "Unknown action."

\* C9: for a message with an email_id:<X> directive whose action_type is
\* absent or is not exactly read, summarize, reply or delete, the answer
\* (given a mailbox client) is the clarification reply, and nothing is
\* listed, fetched, trashed, sent or generated.
C9_NoValidActionTypeClarifies ==
    LET message == Strip(req.message)
        type == TokenAfter(message, Directives.action_type)
    IN  ( /\ req.kind = "chat"
          /\ SearchToken(message, Directives.email_id, IdChars).some
          /\ ~(type.some /\ type.v \in ActionTypes) )
        => /\ HasClient => resp.reply = "I couldn't determine what action to perform."
           /\ Ops(calls) \subseteq {"client"}

\* C10: for a message with email_id:<X> (X of letters, digits, "_" and "-")
\* and action_type:<T>, T one of read, summarize, reply and delete, the turn
\* (given a mailbox client) is the
\* single-item handler of T on X: the intent prompt is not sent, nothing is
\* listed, and X is the one email fetched; read answers with the content of
\* X, summarize with its summary, reply with a compose_reply prompt for X
\* (each when its fetch and generation succeed, else with that handler's
\* failure), delete with a confirm_delete pending response for X.
C10_SelectionRunsItsHandler ==
    LET message == Strip(req.message)
        X == SearchToken(message, Directives.email_id, IdChars)
        T == TokenAfter(message, Directives.action_type)
        gets == CallsOf(calls, "get")
        fetched == gets[1].ok
        generated == CallsOf(calls, "generate")
    IN  (req.kind = "chat" /\ HasClient /\ X.some /\ T.some /\ T.v \in ActionTypes) =>
           /\ Ops(calls) \cap {"generate_intent", "list", "trash", "send"} = {}
           /\ Len(gets) = 1 /\ gets[1].id = X.v
           /\ T.v = Words.read =>
                 /\ generated = <<>>
                 /\ IF fetched
                    THEN /\ resp.reply = "Here's the email."
                         /\ resp.email_id = X.v
                         /\ "email_content" \in resp.keys
                         /\ resp.subject = MailOf(X.v).subject
                    ELSE resp.reply = "Failed to read email"
           /\ T.v = Words.summarize =>
                 /\ Len(generated) = (IF fetched THEN 1 ELSE 0)
                 /\ IF fetched /\ generated[1].ok
                    THEN /\ resp.reply = "Email Summary"
                         /\ resp.email_id = X.v
                         /\ resp.subject = MailOf(X.v).subject
                    ELSE resp.reply = "Failed to summarize email"
           /\ T.v = Words.reply =>
                 /\ generated = <<>>
                 /\ IF fetched
                    THEN /\ resp.action_required = "compose_reply"
                         /\ resp.email_id = X.v
                    ELSE resp.reply = "Failed to prepare reply"
           /\ T.v = Words.delete =>
                 /\ generated = <<>>
                 /\ resp.action_required = "confirm_delete"
                 /\ resp.email_id = X.v

C10_Witness ==
    /\ req.kind = "chat"
    /\ req.message = Msgs.sel_summarize
    /\ resp.reply = "Email Summary"
    /\ resp.email_id = MailData.m2
    /\ Len(calls) = 3

\* the message has `lit` followed at once by a character of `class`
Names(message, lit, class) ==
    \E i \in 1..Len(message) :
        /\ At(message, i, lit, FALSE)
        /\ i + Len(lit) <= Len(message)
        /\ message[i + Len(lit)] \in class
\* the message has reply_text:<id>:<text> with an id and at least one
\* character of text
NamesReplyText(message) ==
    \E i \in 1..Len(message) :
        /\ At(message, i, Directives.reply_text, FALSE)
        /\ LET id == i + Len(Directives.reply_text)
               colon == RunEnd(message, id, IdChars) + 1
           IN  colon > id /\ colon < Len(message) /\ message[colon] = ":"
\* the intent prompt was sent to the text-generation service
AskedIntent == "generate_intent" \in Ops(calls)

\* C11: in a chat turn (given a mailbox client) the intent prompt is sent
\* exactly when the message has none of email_id:<id>, category:<token> and
\* reply_text:<id>:<text>; a message with email_id:<id> is answered as a
\* selection (nothing listed, no category menu, no reply preview) whatever
\* else it has; one with category:<token> and no email_id as a category
\* (a label listing or the category menu, nothing fetched, nothing pending);
\* one with reply_text only as a composed reply (the confirm_send preview).
C11_DirectivesInOrder ==
    LET message == Strip(req.message)
        selected == Names(message, Directives.email_id, IdChars)
        category == Names(message, Directives.category, IdChars)
        composed == NamesReplyText(message)
    IN  (req.kind = "chat" /\ HasClient) =>
           /\ AskedIntent <=> ~(selected \/ category \/ composed)
           /\ selected =>
                 /\ "list" \notin Ops(calls)
                 /\ "categories" \notin resp.keys
                 /\ resp.action_required # "confirm_send"
           /\ (~selected /\ category) =>
                 /\ "get" \notin Ops(calls)
                 /\ "list" \in Ops(calls) \/ "categories" \in resp.keys
                 /\ resp.action_required = ""
           /\ (~selected /\ ~category /\ composed) =>
                 /\ "list" \notin Ops(calls)
                 /\ resp.action_required = "confirm_send"

C11_Witness ==
    /\ req.kind = "chat"
    /\ req.message = Msgs.sel_mixed
    /\ HasClient
    /\ ~AskedIntent
    /\ resp.reply = "I couldn't determine what action to perform."

\* the second colon of a message that starts with reply_text:
SecondColon(message) ==
    SetMin({k \in (Len(Directives.reply_text) + 1)..Len(message) : message[k] = ":"}
           \cup {Len(message) + 1})
\* the message is reply_text:<email_id>:<free text>, the id of letters,
\* digits, "_" and "-" and the free text not empty
ComposedForm(message) ==
    /\ At(message, 1, Directives.reply_text, FALSE)
    /\ SecondColon(message) > Len(Directives.reply_text) + 1
    /\ SecondColon(message) < Len(message)
    /\ \A k \in (Len(Directives.reply_text) + 1)..(SecondColon(message) - 1) :
          message[k] \in IdChars
ComposedId(message) ==
    SubSeq(message, Len(Directives.reply_text) + 1, SecondColon(message) - 1)
ComposedText(message) ==
    Strip(SubSeq(message, SecondColon(message) + 1, Len(message)))
\* the turn answered with the confirmation preview of the composed reply
PreviewOf(message) ==
    /\ ~AskedIntent
    /\ "list" \notin Ops(calls)
    /\ resp.action_required = "confirm_send"
    /\ resp.email_id = ComposedId(message)
    /\ resp.generated_reply = ComposedText(message)

\* C12 (as stated): for every message reply_text:<email_id>:<free text> with
\* non-empty free text the turn (given a mailbox client) answers with the
\* confirm_send preview carrying that id and the trimmed text after the
\* second colon, whatever the free text contains, and sends no intent prompt.
C12_ComposedReplyAnyText ==
    LET message == Strip(req.message)
    IN  (req.kind = "chat" /\ HasClient /\ ComposedForm(message)) => PreviewOf(message)

\* C12 (amended): the same, for the messages that have neither an
\* email_id:<token> nor a category:<token> directive in them (in the free
\* text included): those two are looked for first.
C12_ComposedReplyPreview ==
    LET message == Strip(req.message)
    IN  ( /\ req.kind = "chat" /\ HasClient /\ ComposedForm(message)
          /\ ~Names(message, Directives.email_id, IdChars)
          /\ ~Names(message, Directives.category, IdChars) )
        => PreviewOf(message)

C12_Witness ==
    /\ req.kind = "chat"
    /\ req.message = Msgs.rt_zz
    /\ HasClient
    /\ resp.action_required = "confirm_send"
    /\ resp.email_id = MailData.zz
    /\ resp.generated_reply = <<"o", "k", ":", "t", "h", "e", "n">>
    /\ resp.from = Words.Unknown

\* the token of the first category:<token> of the message
CategoryToken(message) ==
    LET hits == {i \in 1..Len(message) :
                    /\ At(message, i, Directives.category, FALSE)
                    /\ i + Len(Directives.category) <= Len(message)
                    /\ message[i + Len(Directives.category)] \in IdChars}
        j == SetMin(hits) + Len(Directives.category)
    IN  SubSeq(message, j, RunEnd(message, j, IdChars))
\* the turn is decided by a category directive
CategoryTurn ==
    /\ req.kind = "chat"
    /\ HasClient
    /\ ~Names(Strip(req.message), Directives.email_id, IdChars)
    /\ Names(Strip(req.message), Directives.category, IdChars)

\* C13: in a turn decided by category:<token> the token is upper-cased and
\* looked up in the seven category ids.  A recognized id makes one listing
\* call, for that label, and nothing else; when the listing answers, the
\* response has at most 5 emails and action_type "read".  An unrecognized id
\* is answered with the category menu (a normal reply with the categories),
\* with no call to the mailbox.
C13_CategoryDirective ==
    LET label == Upper(CategoryToken(Strip(req.message)))
        lists == CallsOf(calls, "list")
    IN  CategoryTurn =>
           IF label \in {Labels.INBOX, Labels.IMPORTANT, Labels.CATEGORY_PERSONAL,
                         Labels.CATEGORY_SOCIAL, Labels.CATEGORY_PROMOTIONS,
                         Labels.CATEGORY_UPDATES, Labels.SPAM}
           THEN /\ Len(lists) = 1 /\ lists[1].id = label
                /\ Ops(calls) = {"client", "list"}
                /\ lists[1].ok =>
                      /\ Len(resp.emails) <= 5
                      /\ resp.action_type = "read"
                      /\ "emails" \in resp.keys
                      /\ resp.emails # <<>> => resp.show_email_list
           ELSE /\ Ops(calls) = {"client"}
                /\ resp.http = 200
                /\ resp.reply = "Unknown category."
                /\ resp.keys = {"reply", "categories"}

C13_Witness ==
    /\ CategoryTurn
    /\ req.message = Msgs.cat_important
    /\ Len(CallsOf(calls, "list")) = 1
    /\ CallsOf(calls, "list")[1].id = Labels.IMPORTANT
    /\ CallsOf(calls, "list")[1].ok
    /\ resp.emails = <<MailData.m1, MailData.m2, MailData.m3, MailData.m4, MailData.m5>>
    /\ resp.action_type = "read"

\* C14: in a turn decided by category:<token> with an accepted category id,
\* when the listing answers with no messages the response has emails = []
\* and says that no emails were found in the display label the category is
\* mapped to (All Mails, Important, Work, Promotion or Spam;
\* CATEGORY_PROMOTIONS is Promotion).
C14_EmptyCategoryNamesLabel ==
    LET label == Upper(CategoryToken(Strip(req.message)))
        lists == CallsOf(calls, "list")
    IN  ( /\ CategoryTurn
          /\ label \in {Labels.INBOX, Labels.IMPORTANT, Labels.CATEGORY_PERSONAL,
                        Labels.CATEGORY_SOCIAL, Labels.CATEGORY_PROMOTIONS,
                        Labels.CATEGORY_UPDATES, Labels.SPAM}
          /\ Len(lists) = 1 /\ lists[1].ok
          /\ resp.emails = <<>> )
        => /\ "emails" \in resp.keys
           /\ resp.reply = "No emails found in"
           /\ resp.label \in {"All Mails", "Important", "Work", "Promotion", "Spam"}
           /\ label = Labels.CATEGORY_PROMOTIONS => resp.label = "Promotion"

\* what gemini answered to the intent prompt of the request (None: it raised)
IntentAnswer ==
    LET asked == CallsOf(calls, "generate_intent")
    IN  IF asked # <<>> /\ asked[1].ok THEN Some(asked[1].text) ELSE None
\* _understand_intent was applied
Extracted == req.kind = "intent"

\* C15: _understand_intent returns intent data and never an error; when the
\* generation call fails, or answers with text that has no JSON object, or
\* with malformed JSON, what it returns is the rule-based result for the
\* message.
C15_ExtractFallsBack ==
    Extracted =>
       /\ {"intent", "parameters"} \subseteq DOMAIN resp
       /\ ( \/ ~IntentAnswer.some
            \/ IntentAnswer.v \in {Answers.intent_prose, Answers.intent_malformed} )
          => /\ resp = RuleIntent(req.message)
             /\ resp.confidence = "0.7"

C15_Witness ==
    /\ Extracted
    /\ req.message = Msgs.show
    /\ IntentAnswer = Some(Answers.intent_malformed)
    /\ resp.intent = "read"
    /\ resp.num_emails = SomeInt(2)

\* C16: when gemini's answer has a well-formed JSON object with intent,
\* parameters (an object, empty or with entries such as num_emails) and
\* confidence, _understand_intent returns that object's intent and
\* parameters, not the rule-based result.
C16_ExtractUsesJson ==
    ( /\ Extracted
      /\ IntentAnswer.some
      /\ IntentAnswer.v \in {Answers.intent_read_nested, Answers.intent_empty_params} )
    => /\ ~resp.rules
       /\ resp.intent = "read"
       /\ IntentAnswer.v = Answers.intent_read_nested => resp.num_emails = SomeInt(2)

\* C17: when gemini's answer to the intent prompt is JSON that parses but
\* has no intent field, or has parameters that are not an object, the turn
\* goes on with the rule-based intent of the message and does not end in an
\* error reply: it lists the mailbox when that intent is read, summarize,
\* reply, delete, digest or group, shows the category menu for
\* show_categories and the help text for greeting and help, and asks the
\* service to interpret the message when it is unknown.
C17_SchemaFailureFallsBack ==
    LET kind == RuleIntent(Strip(req.message)).intent
    IN  ( /\ req.kind = "chat" /\ HasClient
          /\ IntentAnswer.some
          /\ IntentAnswer.v \in {Answers.intent_no_intent, Answers.intent_null_params} )
        => /\ resp.reply # "Sorry, I encountered an error"
           /\ kind \in {"read", "summarize", "reply", "delete", "digest", "group"}
                 => "list" \in Ops(calls)
           /\ kind = "show_categories" => "categories" \in resp.keys
           /\ kind \in {"greeting", "help"}
                 => resp.reply = "I'm your AI email assistant! Here's what I can do"
           /\ kind = "unknown" => "generate" \in Ops(calls)

\* the rules of the fallback as the order of the Intent Extractor names
\* them: the words of each rule and its intent
NamedRules ==
    <<[words |-> {Keywords.read, Keywords.show, Keywords.list, Keywords.view}, intent |-> "read"],
      [words |-> {Keywords.summarize}, intent |-> "summarize"],
      [words |-> {Keywords.reply, Keywords.respond, Keywords.compose}, intent |-> "reply"],
      [words |-> {Keywords.delete, Keywords.remove, Keywords.trash}, intent |-> "delete"],
      [words |-> {Keywords.digest, Keywords.today, Keywords.daily}, intent |-> "digest"],
      [words |-> {Keywords.categorize_mails}, intent |-> "show_categories"],
      [words |-> {Keywords.group, Keywords.categorize, Keywords.organize}, intent |-> "group"],
      [words |-> {Keywords.hello, Keywords.hi, Keywords.hey, Keywords.greetings},
       intent |-> "greeting"],
      [words |-> {Keywords.help, Keywords.what_can, Keywords.capabilities}, intent |-> "help"]>>
\* the named rules the lower-cased message matches
MatchedRules(message) ==
    {k \in 1..Len(NamedRules) : ContainsAny(Lower(message), NamedRules[k].words)}

\* C18: the rule-based fallback takes the rules in the order read/show/list/
\* view, summarize, reply/respond/compose, delete/remove/trash, digest/today/
\* daily, "categorize mails", group/categorize/organize, greeting words,
\* help words, on the lower-cased message: its intent is that of the first
\* rule of this order that the message matches.
C18_FirstNamedRuleWins ==
    (Extracted /\ resp.rules /\ MatchedRules(req.message) # {})
        => resp.intent = NamedRules[SetMin(MatchedRules(req.message))].intent

\* every word and phrase of the rules of the fallback
RuleWords ==
    {Keywords.read, Keywords.show, Keywords.list, Keywords.display, Keywords.view,
     Keywords.summarize, Keywords.summary, Keywords.summarise,
     Keywords.reply, Keywords.respond, Keywords.answer, Keywords.compose,
     Keywords.delete, Keywords.remove, Keywords.trash, Keywords.organize,
     Keywords.digest, Keywords.today, Keywords.daily, Keywords.overview,
     Keywords.show_categories, Keywords.group, Keywords.categorize, Keywords.category,
     Keywords.hello, Keywords.hi, Keywords.hey, Keywords.greetings,
     Keywords.help, Keywords.what_can, Keywords.capabilities}
\* the first integer written in the message, or 5 when it has none
FirstIntegerOr5(message) ==
    LET digits == {i \in 1..Len(message) : message[i] \in Digits}
    IN  IF digits = {} THEN SomeInt(5)
        ELSE SomeInt(ToInt(SubSeq(message, SetMin(digits),
                                  RunEnd(message, SetMin(digits), Digits))))

\* C19: every rule-based result has confidence 0.7; a message that matches
\* no rule gets intent unknown with empty parameters; a read or summarize
\* result has num_emails equal to the first integer in the message, or 5
\* when the message has no integer.
C19_RuleBasedResult ==
    (Extracted /\ resp.rules) =>
       /\ resp.confidence = "0.7"
       /\ ~ContainsAny(Lower(req.message), RuleWords)
             => /\ resp.intent = "unknown"
                /\ resp.parameters = "dict" /\ resp.num_emails = NoInt
       /\ resp.intent \in {"read", "summarize"}
             => resp.num_emails = FirstIntegerOr5(req.message)

C19_Witness ==
    /\ Extracted
    /\ resp.rules
    /\ req.message = Msgs.show_3_4
    /\ resp.intent = "read"
    /\ resp.num_emails = SomeInt(3)
    /\ resp.confidence = "0.7"

\* the intent a turn that sent the intent prompt works with: that of the
\* flat JSON object gemini answered with, else the rule-based one
TurnIntent ==
    IF IntentAnswer = Some(Answers.intent_delete) THEN "delete"
    ELSE IF IntentAnswer = Some(Answers.intent_reply) THEN "reply"
    ELSE IF IntentAnswer \in {None, Some(Answers.intent_prose), Some(Answers.intent_malformed)}
    THEN RuleIntent(Strip(req.message)).intent
    ELSE "other"
\* the listing the turn fetched
Fetched == CallsOf(calls, "list")[1].text
\* a reply or delete request without an embedded selection (and not one of
\* the buttons, which show the list to click on), whose listing answered
TargetTurn(kind) ==
    /\ req.kind = "chat"
    /\ HasClient
    /\ AskedIntent
    /\ TurnIntent = kind
    /\ ~ContainsAny(Lower(req.message),
                    {Keywords.reply_and_compose, Keywords.reply_compose,
                     Keywords.delete_and_organize, Keywords.delete_organize})
    /\ Len(CallsOf(calls, "list")) = 1
    /\ CallsOf(calls, "list")[1].ok
\* the email the turn made its target: the one a delete asks to confirm, the
\* one a reply fetches to answer
TargetIs(kind, id) ==
    IF kind = "delete"
    THEN resp.action_required = "confirm_delete" /\ resp.email_id = id
    ELSE /\ Len(CallsOf(calls, "get")) = 1
         /\ CallsOf(calls, "get")[1].id = id
         /\ resp.action_required = "confirm_send" => resp.email_id = id

\* C20: in a reply or delete request without an embedded selection, an
\* ordinal N ("email N", "#N", "Nth email") with 1 <= N <= the length of
\* the fetched listing makes item N of the listing the target, whatever
\* sender or subject the message names; with N = 0 or N beyond the listing
\* the target is the first listed email of the sender the message names,
\* else (delete) the first whose subject has the keyword it names.
C20_OrdinalFirst ==
    \A kind \in {"reply", "delete"} :
        LET message == Strip(req.message)
            N == _extract_email_number(message)
            sender == _extract_sender_name(message)
            keyword == _extract_subject_keyword(message)
            bySender == IF Truthy(sender) THEN FirstMatch(Fetched, "from", sender.v)
                        ELSE None
            bySubject == IF Truthy(keyword) THEN FirstMatch(Fetched, "subject", keyword.v)
                         ELSE None
        IN  (TargetTurn(kind) /\ N.some) =>
               IF 1 <= N.n /\ N.n <= Len(Fetched)
               THEN TargetIs(kind, Fetched[N.n])
               ELSE /\ bySender.some => TargetIs(kind, bySender.v)
                    /\ (kind = "delete" /\ ~bySender.some /\ bySubject.some)
                          => TargetIs(kind, bySubject.v)

\* C21: in a reply or delete request without an embedded selection whose
\* ordinal (if any) does not resolve, the target is the first email of the
\* fetched listing whose sender contains the sender the message names;
\* when no sender matches, it is the first email whose subject contains the
\* subject keyword the message names.
C21_SenderThenSubject ==
    \A kind \in {"reply", "delete"} :
        LET message == Strip(req.message)
            N == _extract_email_number(message)
            sender == _extract_sender_name(message)
            keyword == _extract_subject_keyword(message)
            bySender == IF Truthy(sender) THEN FirstMatch(Fetched, "from", sender.v)
                        ELSE None
            bySubject == IF Truthy(keyword) THEN FirstMatch(Fetched, "subject", keyword.v)
                         ELSE None
        IN  (TargetTurn(kind) /\ ~(N.some /\ 1 <= N.n /\ N.n <= Len(Fetched))) =>
               /\ bySender.some => TargetIs(kind, bySender.v)
               /\ (~bySender.some /\ bySubject.some) => TargetIs(kind, bySubject.v)

\* the message names a target: an ordinal, a sender or a subject keyword
TargetSignal(message) ==
    \/ _extract_email_number(message).some
    \/ Truthy(_extract_sender_name(message))
    \/ Truthy(_extract_subject_keyword(message))
\* the message has one of the phrases of the generic request
GenericPhrase(message) ==
    ContainsAny(Lower(message),
                {Keywords.help_me_reply, Keywords.reply_and_compose,
                 Keywords.help_me_delete, Keywords.delete_and_organize})
\* none of the three steps finds a target in the fetched listing
NothingResolves(message) ==
    LET N == _extract_email_number(message)
        sender == _extract_sender_name(message)
        keyword == _extract_subject_keyword(message)
    IN  /\ ~(N.some /\ 1 <= N.n /\ N.n <= Len(Fetched))
        /\ ~(Truthy(sender) /\ FirstMatch(Fetched, "from", sender.v).some)
        /\ ~(Truthy(keyword) /\ FirstMatch(Fetched, "subject", keyword.v).some)
\* the fetch of the target and the generation of the draft succeeded
DraftMade ==
    \A i \in 1..Len(calls) : calls[i].op \in {"get", "generate"} => calls[i].ok

\* C22: in a reply or delete request that names a target (an ordinal, a
\* sender or a subject keyword) and is not the generic request, when none
\* of the three steps finds a target in a non-empty listing, the target is
\* the first item of the listing and the response is the pending
\* confirmation for that email (confirm_delete; confirm_send once the
\* draft was generated).
C22_FallsBackToLatest ==
    \A kind \in {"reply", "delete"} :
        LET message == Strip(req.message)
        IN  (/\ TargetTurn(kind)
             /\ TargetSignal(message)
             /\ ~GenericPhrase(message)
             /\ Fetched # <<>>
             /\ NothingResolves(message)) =>
               /\ TargetIs(kind, Fetched[1])
               /\ kind = "delete" => resp.action_required = "confirm_delete"
               /\ (kind = "reply" /\ DraftMade) => resp.action_required = "confirm_send"

\* a chat turn on a request "read email N ..." that resolved the intent
\* read and whose listing answered
ReadOrdinalTurn ==
    /\ req.kind = "chat"
    /\ HasClient
    /\ AskedIntent
    /\ At(Lower(Strip(req.message)), 1, Keywords.read, FALSE)
    /\ NumberAfter(Strip(req.message), Keywords.email, TRUE).some
    /\ _understand_intent(Strip(req.message), [Env0 EXCEPT !.intent = IntentAnswer]).intent = "read"
    /\ Len(CallsOf(calls, "list")) = 1
    /\ CallsOf(calls, "list")[1].ok

\* C23: "read email N" with 1 <= N <= the length of the listing returns
\* the N-th message of the listing and no other; with N out of range it
\* returns the first listed email of the sender the message names, else
\* the first whose subject has the keyword it names, else the latest one.
C23_ReadEmailN ==
    LET message == Strip(req.message)
        N == NumberAfter(message, Keywords.email, TRUE)
        sender == _extract_sender_name(message)
        keyword == _extract_subject_keyword(message)
        bySender == IF Truthy(sender) THEN FirstMatch(Fetched, "from", sender.v) ELSE None
        bySubject == IF Truthy(keyword) THEN FirstMatch(Fetched, "subject", keyword.v)
                     ELSE None
    IN  (ReadOrdinalTurn /\ Fetched # <<>>) =>
           resp.emails = <<IF 1 <= N.n /\ N.n <= Len(Fetched) THEN Fetched[N.n]
                           ELSE IF bySender.some THEN bySender.v
                           ELSE IF bySubject.some THEN bySubject.v
                           ELSE Fetched[1]>>

\* the intent the turn works with
ResolvedIntent ==
    _understand_intent(Strip(req.message), [Env0 EXCEPT !.intent = IntentAnswer]).intent
\* a turn on a generic reply request resolved as reply, or on a generic
\* delete request resolved as delete: the message has the phrase and names
\* no ordinal, sender or subject; the listing answered and is not empty
GenericTurn ==
    /\ req.kind = "chat"
    /\ HasClient
    /\ AskedIntent
    /\ ~TargetSignal(Strip(req.message))
    /\ \/ /\ ResolvedIntent = "reply"
          /\ ContainsAny(Lower(req.message), {Keywords.help_me_reply, Keywords.reply_and_compose})
       \/ /\ ResolvedIntent = "delete"
          /\ ContainsAny(Lower(req.message), {Keywords.help_me_delete, Keywords.delete_and_organize})
    /\ Len(CallsOf(calls, "list")) = 1
    /\ CallsOf(calls, "list")[1].ok
    /\ Fetched # <<>>

\* C24: a generic reply or delete request ("help me reply", "reply &
\* compose", "help me delete", "delete & organize", no target named) on a
\* non-empty listing is answered with the listing to pick from: no email
\* is fetched or made the target, the response has no email_id and no
\* action_required, although the cascade would end on the latest email;
\* for "delete & organize" the response carries action_type "delete".
C24_GenericReturnsListing ==
    GenericTurn =>
        /\ "emails" \in resp.keys
        /\ resp.emails = Take(Fetched, 10)
        /\ "email_id" \notin resp.keys
        /\ "action_required" \notin resp.keys
        /\ resp.email_id = <<>>
        /\ CallsOf(calls, "get") = <<>>
        /\ Contains(Lower(req.message), Keywords.delete_and_organize) =>
              /\ "action_type" \in resp.keys
              /\ resp.action_type = "delete"

C24_Witness ==
    /\ GenericTurn
    /\ req.message = Msgs.delete_organize
    /\ Len(Fetched) = 3
    /\ resp.emails = Fetched
    /\ resp.action_type = "delete"

\* a turn that reads or summarizes a batch: the intent is read or
\* summarize, the message is not one of the buttons, the listing was asked
BatchTurn ==
    /\ req.kind = "chat"
    /\ HasClient
    /\ AskedIntent
    /\ ResolvedIntent \in {"read", "summarize"}
    /\ ~ContainsAny(Lower(req.message),
                    {Keywords.view_and_read, Keywords.view_read, Keywords.summarize_emails})
    /\ Len(CallsOf(calls, "list")) = 1
\* the listing the batch works on: what the listing call returned
BatchListing == CallsOf(calls, "list")[1].listed

\* C25: a read/summarize batch over a listing of N messages returns N
\* entries in listing order, and the summary of every item whose
\* generation call failed is the snippet of that message, whether or not
\* its full body could be fetched; when the listing call fails the turn
\* returns no entries at all.
C25_BatchDegradesToSnippet ==
    BatchTurn =>
        IF ~CallsOf(calls, "list")[1].ok
        THEN /\ "emails" \notin resp.keys
             /\ resp.summaries = <<>>
             /\ resp.reply = "Failed to read emails"
        ELSE LET gens == CallsOf(calls, "generate")
                 N == Len(BatchListing)
             IN  N > 0 =>
                    /\ resp.emails = BatchListing
                    /\ Len(resp.summaries) = N
                    /\ Len(gens) = N
                    /\ \A i \in 1..N :
                          ~gens[i].ok => resp.summaries[i] = MailOf(BatchListing[i]).snippet

\* a turn that resolved the intent digest and asked for the listing
DigestTurn ==
    /\ req.kind = "chat"
    /\ HasClient
    /\ AskedIntent
    /\ ResolvedIntent = "digest"
    /\ Len(CallsOf(calls, "list")) = 1
\* the smaller of two numbers
Least(a, b) == IF a < b THEN a ELSE b

\* C26: the digest asks the listing for 50 messages and gets at most 50;
\* it fetches the full body of the first 20 listed and of no other; a
\* fetch that fails does not fail the turn: once the digest is generated
\* the response is the digest, and its email_count is the number of
\* fetches that succeeded, at most min(20, length of the listing).
C26_DigestCaps ==
    DigestTurn =>
        LET list == CallsOf(calls, "list")[1]
            gets == CallsOf(calls, "get")
            gens == CallsOf(calls, "generate")
        IN  /\ list.max = 50
            /\ Len(list.listed) <= 50
            /\ (list.ok /\ list.listed # <<>>) =>
                  /\ Len(gets) = Least(20, Len(list.listed))
                  /\ \A i \in 1..Len(gets) : gets[i].id = list.listed[i]
                  /\ (Len(gens) = 1 /\ gens[1].ok) =>
                        /\ resp.reply = "Your Daily Email Digest"
                        /\ "email_count" \in resp.keys
                        /\ resp.email_count = Len(SelectSeq(gets, LAMBDA c : c.ok))
                        /\ resp.email_count <= Least(20, Len(list.listed))

C26_Witness ==
    /\ DigestTurn
    /\ Len(CallsOf(calls, "list")[1].text) > 50
    /\ Len(CallsOf(calls, "list")[1].listed) = 50
    /\ Len(CallsOf(calls, "get")) = 20
    /\ ~CallsOf(calls, "get")[2].ok
    /\ resp.reply = "Your Daily Email Digest"
    /\ resp.email_count = 19

\* a turn that resolved none of the known intents, so that
\* _handle_unknown_intent answers it
UnknownTurn ==
    /\ req.kind = "chat"
    /\ HasClient
    /\ AskedIntent
    /\ ResolvedIntent \notin {"read", "summarize", "reply", "delete", "digest",
                              "show_categories", "group", "greeting", "help"}

\* C27: the unknown-intent handler never raises: the turn is answered with
\* a plain reply, which is the text the generation service returned when
\* its call succeeded and the static menu of supported actions when it
\* failed; it makes exactly that one generation call and no mailbox call.
C27_UnknownNeverRaises ==
    UnknownTurn =>
        LET gens == CallsOf(calls, "generate")
        IN  /\ resp.http = 200
            /\ resp.keys = {"reply"}
            /\ resp.detail = ""
            /\ Len(gens) = 1
            /\ Ops(calls) = {"client", "generate_intent", "generate"}
            /\ IF gens[1].ok
               THEN resp.reply = "the service's reply" /\ resp.text \in Generated
               ELSE resp.reply = "I'm not sure what you'd like to do." /\ resp.text = <<>>

C27_Witness ==
    /\ UnknownTurn
    /\ req.message = Msgs.xyzzy
    /\ Len(CallsOf(calls, "generate")) = 1
    /\ ~CallsOf(calls, "generate")[1].ok
    /\ resp.reply = "I'm not sure what you'd like to do."

\* C28: every chat turn of a verified caller is answered with a normal
\* response that carries a reply, and every confirmation call with a
\* normal response that carries a reply and a status among success,
\* cancelled and error, whichever of the calls to the gateway (client
\* construction, list, get, trash, send) and to the generation service
\* fail.
C28_FailuresBecomeResponses ==
    /\ req.kind = "chat" =>
          /\ resp.http = 200
          /\ "reply" \in resp.keys
          /\ resp.reply # ""
    /\ req.kind = "confirm" =>
          /\ resp.http = 200
          /\ {"reply", "status"} \subseteq resp.keys
          /\ resp.reply # ""
          /\ resp.status \in {"success", "cancelled", "error"}

C28_Witness ==
    /\ req.kind = "chat"
    /\ Len(calls) = 1
    /\ calls[1].op = "client"
    /\ ~calls[1].ok
    /\ resp.http = 200
    /\ resp.reply = "Sorry, I encountered an error"

\* the long-form remediation texts: the steps to enable the API, and the
\* steps to log out and grant the permissions again
LongFormGuidance ==
    {"Gmail API is not enabled ... 1. Go to ... 5. Try again",
     "Permission Denied ... To fix this: 1. Log out ..."}
\* the request ended on the failure of a gateway operation, whose text the
\* response carries
SurfacedFailure(op, class) ==
    /\ req.kind \in {"chat", "confirm", "delete", "reply"}
    /\ calls # <<>>
    /\ calls[Len(calls)].op = op
    /\ ~calls[Len(calls)].ok
    /\ calls[Len(calls)].error = class
    /\ resp.detail # ""

\* C29: when list, get, trash or send fails with a provider error of the
\* class disabled API or insufficient permission and the failure is
\* reported to the caller, the text reported is one of the long-form
\* remediation texts, never the provider's error text; a not-found error
\* of get, trash or send has a text of its own, different from that of
\* any other error.
C29_GuidanceForProviderErrors ==
    \A op \in {"list", "get", "trash", "send"} :
        /\ \A class \in {"disabled", "permission"} :
              SurfacedFailure(op, class) => resp.detail \in LongFormGuidance
        /\ (op # "list" /\ SurfacedFailure(op, "notfound")) =>
              resp.detail # ErrorText([Call(op, <<>>, FALSE) EXCEPT !.error = "other"])

\* C30: a chat turn or a confirmation call that carries no bearer token,
\* a token that does not verify, or a token without a mailbox access
\* token is answered with 401, and no call to the mailbox gateway or to the
\* generation service is made for it.
C30_UnauthorizedIs401 ==
    (/\ req.kind = "unauthorized"
     /\ req.endpoint \in {"message", "confirm-action"}
     /\ req.authorization \in {"absent", "invalid", "expired", "no access_token"}) =>
        /\ resp.http = 401
        /\ calls = <<>>

\* the replies with which a chat turn reports that its handler gave up
FailureReplies ==
    {"Failed to fetch emails", "Failed to read email", "Failed to summarize email",
     "Failed to prepare reply", "Failed to read emails", "Failed to generate reply",
     "Failed to process delete request", "Failed to generate digest",
     "Failed to group emails", "Failed to fetch emails for that category",
     "Sorry, I encountered an error",
     "Gmail API is not enabled in your Google Cloud project."}
\* a chat turn in which a call of the generation service failed and every
\* call of the mailbox gateway succeeded
GenerationFailedAlone ==
    /\ req.kind = "chat"
    /\ \E i \in 1..Len(calls) :
          calls[i].op \in {"generate", "generate_intent"} /\ ~calls[i].ok
    /\ \A i \in 1..Len(calls) :
          calls[i].op \notin {"generate", "generate_intent"} => calls[i].ok

\* C31: a chat turn in which a text-generation call failed, and no mailbox
\* call did, does not end in a failure: its reply is none of the failure
\* replies and carries no error text (the turn went on with the rule-based
\* intent or with a degraded per-item result).
C31_GenerationFailureDegrades ==
    GenerationFailedAlone =>
        /\ resp.reply \notin FailureReplies
        /\ resp.detail = ""

\* the replies that put a list of messages before the user to pick one from
SelectionReplies ==
    {"Click the email you want to", "Top 5 emails in",
     "Which one would you like to reply to?", "Which one would you like to delete?",
     "You can specify by:"}
\* a chat response that returns messages for the user to select from
SelectionResponse ==
    /\ req.kind = "chat"
    /\ "emails" \in resp.keys
    /\ resp.emails # <<>>
    /\ resp.reply \in SelectionReplies
\* a chat response that carries action_required has its shape
PendingShape ==
    (req.kind = "chat" /\ "action_required" \in resp.keys) =>
        /\ {"reply", "email_id", "action_required"} \subseteq resp.keys
        /\ resp.action_required \in {"confirm_send", "confirm_delete", "compose_reply"}
        /\ resp.action_required = "confirm_send" => "generated_reply" \in resp.keys

\* C32: a chat response that returns a list of messages for the user to
\* select from carries reply, emails, an action_type among read, summarize,
\* reply and delete, and show_email_list = true; a chat response that
\* carries action_required carries email_id too, its action_required is
\* confirm_send, confirm_delete or compose_reply, and with confirm_send it
\* carries generated_reply.
C32_ResponseShapes ==
    /\ SelectionResponse =>
          /\ {"reply", "emails", "action_type", "show_email_list"} \subseteq resp.keys
          /\ resp.action_type \in {"read", "summarize", "reply", "delete"}
          /\ resp.show_email_list
    /\ PendingShape

\* the sends the gateway has carried out since the chat turn
Sends == SelectSeq(calls, LAMBDA c : c.op = "send" /\ c.ok)
\* the send of the reply the caller holds
HeldSend(c) ==
    /\ c.op = "send"
    /\ c.id = held.email_id
    /\ c.text = held.generated_reply

\* C33: every time the pending send_reply a chat turn returned is sent back
\* with an affirming text, the gateway is asked to send the reply once
\* more, however many times it has sent it already: a call that answers
\* success has added one send of that reply to that email, a call that
\* answers an error at most one failed send, and a cancelling text none.
C33_EverySendConfirmationSends ==
    [][(held.action_required = "confirm_send" /\ req'.kind = "confirm") =>
          IF ~IsConfirm(ConfirmationText(req'.confirmation)) THEN calls' = calls
          ELSE IF resp'.status = "success"
          THEN /\ Len(calls') = Len(calls) + 1
               /\ SubSeq(calls', 1, Len(calls)) = calls
               /\ HeldSend(calls'[Len(calls')])
               /\ calls'[Len(calls')].ok
               /\ Len(Sends') = Len(Sends) + 1
          ELSE /\ resp'.status = "error"
               /\ Sends' = Sends
               /\ \/ calls' = calls
                  \/ /\ Len(calls') = Len(calls) + 1
                     /\ HeldSend(calls'[Len(calls')])]_vars

\* the same pending reply has been sent twice
C33_Witness ==
    /\ held.action_required = "confirm_send"
    /\ req.kind = "confirm"
    /\ resp.status = "success"
    /\ Len(Sends) >= 2
    /\ HeldSend(Sends[1])
    /\ HeldSend(Sends[2])

\* the calls of turn t, in the order in which they were made
CallsOfTurn(t) == SelectSeq(calls, LAMBDA c : c.turn = t)
\* turn t when it runs alone against the mailbox of its own access token
Alone(t) == chat(req[t].message, Mailbox(req[t].authorization))

\* C34: with chat turns in flight together, every call a turn makes to the
\* mailbox gateway carries the access token of that turn's own request,
\* the client of a turn is built from that token, the calls of a turn are
\* those it makes when it runs alone against the same answers, and so is
\* its response, however the calls of the turns interleave.
C34_TurnsShareNothing ==
    \A t \in Turns : \A alone \in {Alone(t)} : \A made \in {CallsOfTurn(t)} :
        /\ \A i \in 1..Len(made) :
              made[i].token # "" => made[i].token = req[t].authorization
        /\ held[t].service \in {"", req[t].authorization}
        /\ Len(made) = held[t].done
        /\ Len(made) <= Len(alone.calls)
        /\ \A k \in 1..Len(made) : made[k].call = alone.calls[k]
        /\ resp[t] # BlankResp =>
              /\ resp[t] = alone.resp
              /\ Len(made) = Len(alone.calls)

\* both turns have answered, for different access tokens, and a call of
\* one was made between two calls of the other
C34_Witness ==
    /\ \A t \in Turns : resp[t] # BlankResp
    /\ req[1].authorization # req[2].authorization
    /\ \E i, j, k \in 1..Len(calls) :
          /\ i < j /\ j < k
          /\ calls[i].turn = 1 /\ calls[j].turn = 2 /\ calls[k].turn = 1
          /\ calls[j].token = req[2].authorization
          /\ calls[k].token = req[1].authorization
    /\ resp[1] # resp[2]

\* a later turn that names an email of the listing shown by number and
\* whose response asks for a confirmation
FollowUpByNumber ==
    /\ held # <<>>
    /\ req.kind = "chat"
    /\ _extract_email_number(Strip(req.message)).some
    /\ 1 <= _extract_email_number(Strip(req.message)).n
    /\ _extract_email_number(Strip(req.message)).n <= Len(held)
    /\ "action_required" \in resp.keys

\* C35: when a turn says "delete email N" or "reply to email N" after a
\* listing was shown, the pending confirmation it returns names the
\* message that was number N of the listing shown, also when a message has
\* arrived in the mailbox since.
C35_NumberNamesShownMessage ==
    FollowUpByNumber =>
        resp.email_id = held[_extract_email_number(Strip(req.message)).n]

\* the ids the message of the turn embeds: after email_id: and after
\* reply_text:
EmbeddedIds ==
    LET message == Strip(req.message)
        selected == SearchToken(message, Directives.email_id, IdChars)
        composed == ReplyTextDirective(message)
    IN  (IF selected.some THEN {selected.v} ELSE {})
        \cup (IF composed.some THEN {composed.email_id} ELSE {})
\* C36: the email_id of a chat response that asks for a confirmation or
\* for a composed text is an id the message of the turn embeds (email_id:
\* or reply_text:) or the id of an email the listing of the same turn
\* returned; for an embedded id whose fetch fails the delete selection and
\* the reply preview still return their pending response, with
\* placeholders for sender and subject.
C36_PendingIdOrigin ==
    /\ (req.kind = "chat" /\ "action_required" \in resp.keys) =>
          \/ resp.email_id \in EmbeddedIds
          \/ \E i \in 1..Len(calls) :
                /\ calls[i].op = "list"
                /\ \E k \in 1..Len(calls[i].listed) : calls[i].listed[k] = resp.email_id
    /\ (/\ req.kind = "chat"
        /\ Len(calls) = 2
        /\ calls[2].op = "get"
        /\ ~calls[2].ok) =>
          LET message == Strip(req.message)
              selected == SearchToken(message, Directives.email_id, IdChars)
              action_type == SearchToken(message, Directives.action_type, Letters)
              composed == ReplyTextDirective(message)
          IN  /\ (selected.some /\ Is(action_type, Words.delete)) =>
                    /\ resp.action_required = "confirm_delete"
                    /\ resp.email_id = selected.v
                    /\ resp.from = Words.unknown
                    /\ resp.subject = Words.email
              /\ (~selected.some /\ composed.some) =>
                    /\ resp.action_required = "confirm_send"
                    /\ resp.email_id = composed.email_id
                    /\ resp.from = Words.Unknown
                    /\ resp.subject = Words.Unknown

C36_Witness ==
    /\ req.kind = "chat"
    /\ req.message = Msgs.sel_delete_zz
    /\ Len(calls) = 2
    /\ calls[2].op = "get"
    /\ ~calls[2].ok
    /\ resp.action_required = "confirm_delete"
    /\ resp.email_id = MailData.zz
    /\ resp.from = Words.unknown

\* C37: a chat response with action_required = confirm_send carries a
\* generated_reply that is not empty, whether the reply text came with the
\* reply_text: directive or was drafted by the generation service.
C37_ConfirmSendHasReplyText ==
    (req.kind = "chat" /\ resp.action_required = "confirm_send") =>
        /\ "generated_reply" \in resp.keys
        /\ resp.generated_reply # <<>>

\* C38: a message that is just one of the words or phrases listed for a
\* rule of the rule-based fallback gets the intent of that rule.
C38_EveryKeywordTriggersItsRule ==
    (Extracted /\ resp.rules) =>
        \A k \in DOMAIN ListedRules :
            req.message \in ListedRules[k].words => resp.intent = ListedRules[k].intent

\* C39: a chat turn whose message is empty or white space only is answered
\* with "Please provide a message." and nothing else; no mailbox client is
\* built for it and neither the gateway nor the generation service is
\* called, whatever they would have answered.
C39_EmptyMessageCallsNothing ==
    (req.kind = "chat" /\ Strip(req.message) = <<>>) =>
        /\ resp = Reply("Please provide a message.")
        /\ calls = <<>>
        /\ held = NoPending

C39_Witness ==
    /\ req.kind = "chat"
    /\ req.message = Msgs.spaces
    /\ Len(req.message) > 0
    /\ resp.reply = "Please provide a message."
    /\ calls = <<>>

\* a turn whose handler listed the latest emails and got none
EmptyListingTurn ==
    /\ req.kind = "chat"
    /\ \E i \in 1..Len(calls) :
          /\ calls[i].op = "list"
          /\ calls[i].id = <<>>
          /\ calls[i].ok
          /\ calls[i].listed = <<>>
NoEmailsReplies ==
    {"You don't have any emails in your inbox.", "You don't have any emails to reply to.",
     "You don't have any emails to delete.", "You don't have any emails today.",
     "You don't have enough emails to group."}

\* C40: when the listing of the latest emails comes back empty, the turn
\* (selection list, batch of summaries, reply, delete, digest, grouping)
\* ends with a plain "no emails" reply: the response has the reply only,
\* no email_id and no action_required, nothing is held for confirmation,
\* and after the listing no email is fetched and no content is generated.
C40_EmptyListingEndsTurn ==
    EmptyListingTurn =>
        /\ resp.http = 200
        /\ resp.keys = {"reply"}
        /\ resp.reply \in NoEmailsReplies
        /\ resp.email_id = <<>>
        /\ resp.action_required = ""
        /\ held = NoPending
        /\ calls[Len(calls)].op = "list"
        /\ Ops(calls) \subseteq {"client", "generate_intent", "list"}

C40_Witness ==
    /\ EmptyListingTurn
    /\ req.message = Msgs.digest
    /\ resp.reply = "You don't have any emails today."
    /\ Len(CallsOf(calls, "list")) = 1
    /\ CallsOf(calls, "list")[1].max = 50
====
